---- MODULE Spec2Model ----
(***************************************************************************)
(* Break Scheduling Engine of breaktimer-fork (app/main/lib/breaks.ts,     *)
(* break-rotation.ts, store.ts, ipc.ts).                                   *)
(*                                                                         *)
(* Time is in milliseconds since the epoch (Date.now(), moment()); the     *)
(* local time zone is taken to be UTC.  A handler reads the clock once:    *)
(* every Date.now()/moment()/new Date() inside one synchronous handler     *)
(* yields the value of the variable now.                                   *)
(*                                                                         *)
(* A nullable number or Date (null/undefined) is the value Null; an        *)
(* optional structured value is a sequence of length 0 (absent) or 1.      *)
(***************************************************************************)
EXTENDS Integers, Sequences, FiniteSets, TLC

VARIABLES now, settings, eng, pending, fx, probe

vars == <<now, settings, eng, pending, fx, probe>>

(***************************************************************************)
(* Bounds of the model                                                     *)
(***************************************************************************)
MaxTime == 4
MaxHistory == 2
MaxPostponed == 2
MaxTotalSeconds == 2
MaxSelections == 7
MaxAwayPeriods == 5
MaxAge == 3

(***************************************************************************)
(* Value encodings                                                         *)
(***************************************************************************)
Null == -1
NaN == -1000000
NonInteger == 1000
Undefined == 2000
None == <<>>
Some(x) == <<x>>

MsPerSecond == 1000
MsPerMinute == 60 * MsPerSecond
MsPerDay == 24 * 60 * MsPerMinute
EpochDayOfWeek == 4

IsFinite(x) == x # NaN
IsInteger(v) == v # NonInteger /\ v # NaN
Max(a, b) == IF a >= b THEN a ELSE b
Abs(a) == IF a >= 0 THEN a ELSE 0 - a
\* Number((ms / 1000).toFixed(0)) for ms >= 0
RoundToSeconds(ms) == (ms + 500) \div MsPerSecond
\* JavaScript's remainder: the sign of the result follows the dividend
JsRem(a, n) == IF a >= 0 THEN a % n ELSE 0 - ((0 - a) % n)

(***************************************************************************)
(* break-rotation.ts                                                       *)
(***************************************************************************)
\* A variant of the shuffle that copies indexes[j] to i without swapping
RECURSIVE FisherYatesNoSwap(_, _, _)
FisherYatesNoSwap(indexes, i, rnd) ==
  IF i <= 0 THEN indexes
  ELSE LET j == rnd[i]
           copied == [indexes EXCEPT ![i + 1] = indexes[j + 1]]
       IN FisherYatesNoSwap(copied, i - 1, rnd)

RECURSIVE FisherYates(_, _, _)
FisherYates(indexes, i, rnd) ==
  IF i <= 0 THEN indexes
  ELSE LET j == rnd[i]
           swapped == [indexes EXCEPT ![i + 1] = indexes[j + 1],
                                      ![j + 1] = indexes[i + 1]]
       IN FisherYates(swapped, i - 1, rnd)

\* The draws Math.floor(Math.random() * (i + 1)) for i = length-1 .. 1
RandomDraws(length) ==
  IF length <= 1 THEN {<<>>}
  ELSE {r \in [1..(length - 1) -> 0..(length - 1)] :
          \A i \in 1..(length - 1) : r[i] <= i}

generateSequentialOrder(length, rnd) ==
  FisherYates([i \in 1..length |-> i - 1], length - 1, rnd)

\* A variant of the loop that forgets the values it has seen
RECURSIVE SanitizeLoopNoSeen(_, _, _, _)
SanitizeLoopNoSeen(items, length, i, seen) ==
  IF i > Len(items) THEN TRUE
  ELSE LET value == items[i]
       IN IF ~IsInteger(value) \/ value < 0 \/ value >= length
          THEN FALSE
          ELSE SanitizeLoopNoSeen(items, length, i + 1, seen)

RECURSIVE SanitizeLoop(_, _, _, _)
SanitizeLoop(items, length, i, seen) ==
  IF i > Len(items) THEN TRUE
  ELSE LET value == items[i]
       IN IF ~IsInteger(value) \/ value < 0 \/ value >= length
             \/ value \in seen
          THEN FALSE
          ELSE SanitizeLoop(items, length, i + 1, seen \cup {value})

sanitizeSequentialOrder(order, length) ==
  IF ~order.isArray \/ Len(order.items) # length THEN None
  ELSE IF SanitizeLoop(order.items, length, 1, {})
       THEN Some(order.items)
       ELSE None

ArrayOf(items) == [isArray |-> TRUE, items |-> items]
NotAnArray == [isArray |-> FALSE, items |-> <<>>]


(***************************************************************************)
(* types/settings.ts: the Settings fields the engine reads or writes.      *)
(* The message pool is a sequence of message ids; getSettings() returns it *)
(* normalized ({text, attachments} only, so no message carries a           *)
(* durationSeconds override).  workingHours[d] stands for the field that   *)
(* dayMap gives for moment().day() = d (0 = Sunday).                       *)
(***************************************************************************)
LegacyMessage == 99
MaxPool == 3

defaultWorkingRange == [fromMinutes |-> 9 * 60, toMinutes |-> 18 * 60]

DayEnabled == [enabled |-> TRUE, ranges |-> <<defaultWorkingRange>>]
DayDisabled == [enabled |-> FALSE, ranges |-> <<defaultWorkingRange>>]

defaultSettings ==
  [breaksEnabled |-> TRUE,
   notificationType |-> "POPUP",
   breakFrequencySeconds |-> 28 * 60,
   breakLengthSeconds |-> 2 * 60,
   postponeLengthSeconds |-> 3 * 60,
   postponeLimit |-> 0,
   workingHoursEnabled |-> TRUE,
   workingHours |-> [d \in 0..6 |-> IF d \in 1..5 THEN DayEnabled ELSE DayDisabled],
   idleResetEnabled |-> TRUE,
   idleResetLengthSeconds |-> 5 * 60,
   idleResetNotification |-> FALSE,
   soundType |-> "GONG",
   breakMessages |-> <<0>>,
   breakMessagesMode |-> "RANDOM",
   breakMessagesNextIndex |-> 0,
   breakMessagesOrder |-> ArrayOf(<<0>>)]

\* normalizeBreakMessages(settings.breakMessages) of an already normalized pool
normalizeBreakMessages(messages) == messages

(***************************************************************************)
(* breaks.ts: checkInWorkingHours                                          *)
(***************************************************************************)
MomentHours(t) == (t \div (60 * MsPerMinute)) % 24
MomentMinutes(t) == (t \div MsPerMinute) % 60
MomentDay(t) == (EpochDayOfWeek + (t \div MsPerDay)) % 7

\* A variant with an exclusive upper bound
RangeContainsExclusive(range, currentMinutes) ==
  currentMinutes >= range.fromMinutes /\ currentMinutes < range.toMinutes

RangeContains(range, currentMinutes) ==
  currentMinutes >= range.fromMinutes /\ currentMinutes <= range.toMinutes

checkInWorkingHours(s) ==
  IF ~s.workingHoursEnabled THEN TRUE
  ELSE LET currentMinutes == MomentHours(now) * 60 + MomentMinutes(now)
           dayOfWeek == MomentDay(now)
           todaySettings == s.workingHours[dayOfWeek]
       IN IF ~todaySettings.enabled THEN FALSE
          ELSE \E i \in DOMAIN todaySettings.ranges :
                 RangeContains(todaySettings.ranges[i], currentMinutes)

(***************************************************************************)
(* breaks.ts: determineNextBreakMessage.  rnd1 and rnd2 are the draws of   *)
(* the two possible generateSequentialOrder calls, pick the value of       *)
(* Math.floor(Math.random() * availableMessages.length).                   *)
(***************************************************************************)
determineNextBreakMessage(s, rnd1, rnd2, pick) ==
  LET availableMessages == normalizeBreakMessages(s.breakMessages)
      totalMessages == Len(availableMessages)
  IN IF totalMessages > 0
     THEN IF s.breakMessagesMode = "SEQUENTIAL"
          THEN LET idxRaw == IF s.breakMessagesNextIndex # Undefined
                             THEN s.breakMessagesNextIndex ELSE 0
                   currentIndex ==
                     JsRem(JsRem(idxRaw, totalMessages) + totalMessages, totalMessages)
                   sane == sanitizeSequentialOrder(s.breakMessagesOrder, totalMessages)
                   order0 == IF sane = None
                             THEN generateSequentialOrder(totalMessages, rnd1)
                             ELSE sane[1]
                   messageIndex == order0[currentIndex + 1]
                   message == availableMessages[messageIndex + 1]
                   wrap == currentIndex + 1 >= totalMessages
                   nextIndex == IF wrap THEN 0 ELSE currentIndex + 1
                   order1 == IF wrap
                             THEN generateSequentialOrder(totalMessages, rnd2)
                             ELSE order0
               IN [message |-> message,
                   updatedSettings |->
                     Some([s EXCEPT !.breakMessagesNextIndex = nextIndex,
                                    !.breakMessagesOrder = ArrayOf(order1),
                                    !.breakMessages = availableMessages])]
          ELSE [message |-> availableMessages[pick + 1], updatedSettings |-> None]
     ELSE [message |-> LegacyMessage, updatedSettings |-> None]

\* The random draws one call of determineNextBreakMessage(s) makes: rnd1 is
\* drawn only when the stored order is rejected, rnd2 only when the cursor wraps
Randoms(s) ==
  LET n == Len(s.breakMessages)
      idxRaw == IF s.breakMessagesNextIndex # Undefined
                THEN s.breakMessagesNextIndex ELSE 0
  IN IF n = 0 THEN {[rnd1 |-> <<>>, rnd2 |-> <<>>, pick |-> 0]}
     ELSE IF s.breakMessagesMode = "SEQUENTIAL"
          THEN {[rnd1 |-> a, rnd2 |-> b, pick |-> 0] :
                  a \in IF sanitizeSequentialOrder(s.breakMessagesOrder, n) = None
                        THEN RandomDraws(n) ELSE {<<>>},
                  b \in IF JsRem(JsRem(idxRaw, n) + n, n) + 1 >= n
                        THEN RandomDraws(n) ELSE {<<>>}}
          ELSE {[rnd1 |-> <<>>, rnd2 |-> <<>>, pick |-> p] : p \in 0..(n - 1)}


(***************************************************************************)
(* breaks.ts: the module-level state (lines 168-192 and 762), as a record. *)
(* tickInterval is TRUE while the interval timer is set.                   *)
(***************************************************************************)
EngineLoaded(t) ==
  [breakTime |-> Null,
   havingBreak |-> FALSE,
   postponedCount |-> 0,
   idleStart |-> Null,
   lockStart |-> Null,
   lastTick |-> Null,
   startedFromTray |-> FALSE,
   lastCompletedBreakTime |-> t,
   currentBreakStartTime |-> Null,
   hasSkippedOrSnoozedSinceLastBreak |-> FALSE,
   currentBreakMessage |-> Null,
   currentBreakEndTimestamp |-> Null,
   currentBreakRemainingMs |-> Null,
   currentBreakTotalDurationMs |-> Null,
   breakCountdownPaused |-> FALSE,
   breakMessageHistory |-> <<>>,
   breakMessageHistoryIndex |-> 0 - 1,
   tickInterval |-> FALSE]

(***************************************************************************)
(* A handler is an operator on a world w: the engine state w.e, the stored *)
(* settings w.s, the effects w.fx the handler has emitted so far           *)
(* (notifications, broadcasts, windows), its return value w.ret and the    *)
(* asynchronous continuations w.spawn it has left suspended.               *)
(***************************************************************************)
Fx(k, a, b) == [k |-> k, a |-> a, b |-> b]
Emit(w, f) == [w EXCEPT !.fx = Append(@, f)]
Return(w, r) == [w EXCEPT !.ret = r]
World == [e |-> eng, s |-> settings, fx |-> <<>>, ret |-> None, spawn |-> <<>>]

showNotification(w, title, a) == Emit(w, Fx(title, a, 0))
sendIpc(w, channel, a, b) == Emit(w, Fx(channel, a, b))
createBreakWindows(w) == Emit(w, Fx("createBreakWindows", 0, 0))

\* BreakMessageContent.durationSeconds of a pool message: normalizeBreakMessage
\* returns {text, attachments} only
DurationSeconds(message) == Undefined

\* A variant that passes zero and negative values through
getSecondsFromSettingsUnchecked(seconds) ==
  IF seconds = Undefined \/ ~IsFinite(seconds) THEN 1 ELSE seconds

getSecondsFromSettings(seconds) ==
  IF seconds = Undefined \/ ~IsFinite(seconds) \/ seconds <= 0
  THEN 1
  ELSE seconds

getIdleResetSeconds(s) == getSecondsFromSettings(s.idleResetLengthSeconds)

getBreakSeconds(s) == getSecondsFromSettings(s.breakFrequencySeconds)

resolveMessageDurationMs(s, message) ==
  LET fallbackSecondsRaw == s.breakLengthSeconds
      fallbackSeconds == IF IsFinite(fallbackSecondsRaw)
                         THEN Max(1, fallbackSecondsRaw) ELSE 1
      overrideSecondsRaw == DurationSeconds(message)
  IN IF message = Null THEN fallbackSeconds * MsPerSecond
     ELSE IF overrideSecondsRaw # Undefined /\ IsFinite(overrideSecondsRaw)
             /\ overrideSecondsRaw > 0
          THEN Max(1, overrideSecondsRaw) * MsPerSecond
          ELSE fallbackSeconds * MsPerSecond

getBreakLengthSeconds(w) ==
  LET override == IF w.e.currentBreakMessage = Null THEN Undefined
                  ELSE DurationSeconds(w.e.currentBreakMessage)
  IN IF w.e.havingBreak /\ override # Undefined /\ IsFinite(override) /\ override > 0
     THEN Max(1, override)
     ELSE w.s.breakLengthSeconds

clearBreakMessageHistory(e) ==
  [e EXCEPT !.breakMessageHistory = <<>>, !.breakMessageHistoryIndex = 0 - 1]

\* A variant that pushes the entry without moving the cursor to it
recordBreakMessageInHistoryKeepingCursor(e, message, durationMs) ==
  IF message = Null THEN e
  ELSE LET normalizedDuration == Max(1, durationMs)
           kept == IF e.breakMessageHistoryIndex < Len(e.breakMessageHistory) - 1
                   THEN SubSeq(e.breakMessageHistory, 1,
                               Max(0, e.breakMessageHistoryIndex + 1))
                   ELSE e.breakMessageHistory
           pushed == Append(kept, [message |-> message,
                                   durationMs |-> normalizedDuration])
       IN [e EXCEPT !.breakMessageHistory = pushed]

recordBreakMessageInHistory(e, message, durationMs) ==
  IF message = Null THEN e
  ELSE LET normalizedDuration == Max(1, durationMs)
           kept == IF e.breakMessageHistoryIndex < Len(e.breakMessageHistory) - 1
                   THEN SubSeq(e.breakMessageHistory, 1,
                               Max(0, e.breakMessageHistoryIndex + 1))
                   ELSE e.breakMessageHistory
           pushed == Append(kept, [message |-> message,
                                   durationMs |-> normalizedDuration])
       IN [e EXCEPT !.breakMessageHistory = pushed,
                    !.breakMessageHistoryIndex = Len(pushed) - 1]

updateCurrentHistoryEntryDuration(e, durationMs) ==
  IF e.breakMessageHistoryIndex < 0
     \/ e.breakMessageHistoryIndex >= Len(e.breakMessageHistory)
  THEN e
  ELSE [e EXCEPT !.breakMessageHistory[e.breakMessageHistoryIndex + 1].durationMs =
                   Max(1, durationMs)]

\* None for null
getHistoryEntry(e, index) ==
  IF index < 0 \/ index >= Len(e.breakMessageHistory) THEN None
  ELSE Some(e.breakMessageHistory[index + 1])

getCurrentHistoryEntry(e) == getHistoryEntry(e, e.breakMessageHistoryIndex)

getBreakMessageNavigationState(e, s) ==
  LET hasPrevious == e.breakMessageHistoryIndex > 0
      hasFutureHistory == e.breakMessageHistoryIndex >= 0
                          /\ e.breakMessageHistoryIndex < Len(e.breakMessageHistory) - 1
      hasMultipleMessages == Len(normalizeBreakMessages(s.breakMessages)) > 1
  IN [hasPrevious |-> hasPrevious, hasNext |-> hasFutureHistory \/ hasMultipleMessages]

createBreakMessageSwitchResult(e, durationMs, s) ==
  LET nav == getBreakMessageNavigationState(e, s)
  IN [message |-> e.currentBreakMessage, durationMs |-> durationMs,
      hasPrevious |-> nav.hasPrevious, hasNext |-> nav.hasNext]

broadcastBreakMessageUpdate(w, s) ==
  sendIpc(w, "BreakMessageUpdate", w.e.currentBreakMessage, 0)

\* A variant that leaves the remaining time of the countdown as it was
applyBreakMessageEntryKeepingRemaining(w, entry, s) ==
  LET targetDurationMs == Max(1, entry.durationMs)
      w1 == [w EXCEPT !.e.currentBreakMessage = entry.message,
                      !.e.currentBreakTotalDurationMs = targetDurationMs]
      remaining == IF w.e.currentBreakRemainingMs # Null
                   THEN w.e.currentBreakRemainingMs ELSE targetDurationMs
      w2 == IF w1.e.breakCountdownPaused
            THEN sendIpc([w1 EXCEPT !.e.currentBreakEndTimestamp = Null],
                         "BreakPause", remaining, targetDurationMs)
            ELSE sendIpc([w1 EXCEPT !.e.currentBreakEndTimestamp = now + remaining,
                                    !.e.breakCountdownPaused = FALSE],
                         "BreakStart", now + remaining, targetDurationMs)
      w3 == broadcastBreakMessageUpdate(w2, s)
  IN Return(w3, Some(createBreakMessageSwitchResult(w3.e, targetDurationMs, s)))

applyBreakMessageEntry(w, entry, s) ==
  LET targetDurationMs == Max(1, entry.durationMs)
      w1 == [w EXCEPT !.e.currentBreakMessage = entry.message,
                      !.e.currentBreakTotalDurationMs = targetDurationMs,
                      !.e.currentBreakRemainingMs = targetDurationMs]
      w2 == IF w1.e.breakCountdownPaused
            THEN sendIpc([w1 EXCEPT !.e.currentBreakEndTimestamp = Null],
                         "BreakPause", targetDurationMs, targetDurationMs)
            ELSE sendIpc([w1 EXCEPT !.e.currentBreakEndTimestamp = now + targetDurationMs,
                                    !.e.breakCountdownPaused = FALSE],
                         "BreakStart", now + targetDurationMs, targetDurationMs)
      w3 == broadcastBreakMessageUpdate(w2, s)
  IN Return(w3, Some(createBreakMessageSwitchResult(w3.e, targetDurationMs, s)))

startBreakTracking(w) ==
  Emit([w EXCEPT !.e.currentBreakStartTime = now], Fx("startBreakTracking", 0, 0))

completeBreakTracking(w, breakDurationMs) ==
  IF w.e.currentBreakStartTime = Null THEN w
  ELSE LET requiredDurationMs == getBreakLengthSeconds(w) * MsPerSecond
       IN IF 2 * breakDurationMs >= requiredDurationMs
          THEN [w EXCEPT !.e.lastCompletedBreakTime = now,
                         !.e.hasSkippedOrSnoozedSinceLastBreak = FALSE,
                         !.e.currentBreakStartTime = Null]
          ELSE [w EXCEPT !.e.hasSkippedOrSnoozedSinceLastBreak = TRUE,
                         !.e.currentBreakStartTime = Null]

\* A variant that leaves the message history in place
resetCurrentBreakTimerStateKeepingHistory(e) ==
  [e EXCEPT !.currentBreakEndTimestamp = Null,
            !.currentBreakRemainingMs = Null,
            !.currentBreakTotalDurationMs = Null,
            !.breakCountdownPaused = FALSE]

resetCurrentBreakTimerState(e) ==
  clearBreakMessageHistory(
    [e EXCEPT !.currentBreakEndTimestamp = Null,
              !.currentBreakRemainingMs = Null,
              !.currentBreakTotalDurationMs = Null,
              !.breakCountdownPaused = FALSE])

createIdleNotification(w) ==
  IF ~w.s.idleResetEnabled \/ w.e.idleStart = Null THEN w
  ELSE IF w.s.idleResetNotification
       THEN showNotification(w, "Break automatically detected",
                             RoundToSeconds(now - w.e.idleStart))
       ELSE w

\* A variant that keeps the postpone count when it closes an idle period
scheduleNextBreakKeepingCount(w, isPostpone) ==
  LET w0 == [w EXCEPT !.e.startedFromTray = FALSE]
      w1 == IF w0.e.idleStart # Null
            THEN [createIdleNotification(w0) EXCEPT
                    !.e.idleStart = Null,
                    !.e.lastCompletedBreakTime = now,
                    !.e.hasSkippedOrSnoozedSinceLastBreak = FALSE]
            ELSE w0
      rawSeconds == IF isPostpone THEN w.s.postponeLengthSeconds
                    ELSE w.s.breakFrequencySeconds
      seconds == getSecondsFromSettings(rawSeconds)
  IN [w1 EXCEPT !.e.breakTime = now + seconds * MsPerSecond]

scheduleNextBreak(w, isPostpone) ==
  LET w0 == [w EXCEPT !.e.startedFromTray = FALSE]
      w1 == IF w0.e.idleStart # Null
            THEN [createIdleNotification(w0) EXCEPT
                    !.e.idleStart = Null,
                    !.e.postponedCount = 0,
                    !.e.lastCompletedBreakTime = now,
                    !.e.hasSkippedOrSnoozedSinceLastBreak = FALSE]
            ELSE w0
      rawSeconds == IF isPostpone THEN w.s.postponeLengthSeconds
                    ELSE w.s.breakFrequencySeconds
      seconds == getSecondsFromSettings(rawSeconds)
  IN [w1 EXCEPT !.e.breakTime = now + seconds * MsPerSecond]

\* A variant that keeps the postpone count
endPopupBreakKeepingCount(w) ==
  LET w1 == [w EXCEPT !.e = [resetCurrentBreakTimerState(w.e) EXCEPT
                               !.havingBreak = FALSE,
                               !.startedFromTray = FALSE]]
  IN IF w.e.breakTime = Null \/ w.e.breakTime <= now
     THEN scheduleNextBreak([w1 EXCEPT !.e.breakTime = Null], FALSE)
     ELSE w1

\* A variant that schedules a new break whatever is already scheduled
endPopupBreakAlwaysScheduling(w) ==
  scheduleNextBreak([w EXCEPT !.e = [resetCurrentBreakTimerState(w.e) EXCEPT
                                       !.havingBreak = FALSE,
                                       !.startedFromTray = FALSE,
                                       !.postponedCount = 0,
                                       !.breakTime = Null]],
                    FALSE)

endPopupBreak(w) ==
  LET existingBreakTime == w.e.breakTime
      w1 == [w EXCEPT !.e = [resetCurrentBreakTimerState(w.e) EXCEPT
                               !.havingBreak = FALSE,
                               !.startedFromTray = FALSE,
                               !.postponedCount = 0]]
  IN IF existingBreakTime = Null \/ existingBreakTime <= now
     THEN scheduleNextBreak([w1 EXCEPT !.e.breakTime = Null], FALSE)
     ELSE w1

getAllowPostpone(w) ==
  w.s.postponeLimit = 0 \/ w.e.postponedCount < w.s.postponeLimit

\* A variant that never consults the postpone limit
postponeBreakUnlimited(w, action) ==
  LET w1 == [w EXCEPT !.e = [resetCurrentBreakTimerState(w.e) EXCEPT
                               !.postponedCount = w.e.postponedCount + 1,
                               !.havingBreak = FALSE,
                               !.hasSkippedOrSnoozedSinceLastBreak = TRUE]]
  IN scheduleNextBreak(w1, action # "skipped")

\* A variant that leaves the countdown of the postponed break in place
postponeBreakKeepingCountdown(w, action) ==
  IF w.s.postponeLimit # 0 /\ w.e.postponedCount >= w.s.postponeLimit
  THEN w
  ELSE LET w1 == [w EXCEPT !.e.postponedCount = w.e.postponedCount + 1,
                           !.e.havingBreak = FALSE,
                           !.e.hasSkippedOrSnoozedSinceLastBreak = TRUE]
       IN IF action = "skipped"
          THEN scheduleNextBreak(w1, FALSE)
          ELSE scheduleNextBreak(w1, TRUE)

postponeBreak(w, action) ==
  IF w.s.postponeLimit # 0 /\ w.e.postponedCount >= w.s.postponeLimit
  THEN w
  ELSE LET w1 == [w EXCEPT !.e = [resetCurrentBreakTimerState(w.e) EXCEPT
                                    !.postponedCount = w.e.postponedCount + 1,
                                    !.havingBreak = FALSE,
                                    !.hasSkippedOrSnoozedSinceLastBreak = TRUE]]
       IN IF action = "skipped"
          THEN scheduleNextBreak(w1, FALSE)
          ELSE scheduleNextBreak(w1, TRUE)


(***************************************************************************)
(* breaks.ts: doBreak and updateCurrentBreakMessageFromSettings.  Both     *)
(* awaits (of determineNextBreakMessage and of setSettings) are suspension *)
(* points: a suspended call is a record                                    *)
(*   [kind, stage, message, updatedSettings, settings]                     *)
(* holding its locals; stage 1 waits at line 105, stage 2 at line 112 (or  *)
(* for the caller's await at line 532 / 1065 to resume).                   *)
(***************************************************************************)
Suspend(w, kind, d, s) ==
  [w EXCEPT !.spawn = Append(@, [kind |-> kind, stage |-> 1,
                                 message |-> d.message,
                                 updatedSettings |-> d.updatedSettings,
                                 settings |-> s])]

\* doBreak up to its await (lines 527-532)
doBreak(w, r) ==
  LET w1 == startBreakTracking([w EXCEPT !.e.havingBreak = TRUE])
      w2 == [w1 EXCEPT !.e = clearBreakMessageHistory(w1.e)]
  IN Suspend(w2, "doBreak", determineNextBreakMessage(w.s, r.rnd1, r.rnd2, r.pick), w.s)

initBreaks(w) ==
  LET w1 == IF w.s.breaksEnabled THEN scheduleNextBreak(w, FALSE) ELSE w
  IN [w1 EXCEPT !.e.tickInterval = TRUE]

\* A variant that re-initialises the engine whatever resetBreaks says
setSettingsAlwaysResetting(w, newSettings, resetBreaks) ==
  LET w1 == [w EXCEPT !.s = newSettings]
      w2 == IF w1.s.breaksEnabled THEN scheduleNextBreak(w1, FALSE) ELSE w1
  IN [w2 EXCEPT !.e.tickInterval = TRUE]

\* store.ts setSettings as the engine sees it: the stored settings are replaced
\* and, with resetBreaks, the engine is re-initialised
setSettings(w, newSettings, resetBreaks) ==
  LET w1 == [w EXCEPT !.s = newSettings]
  IN IF resetBreaks THEN initBreaks(w1) ELSE w1

\* A variant that drops the selected message when the save fails
updateCurrentBreakMessageFromSettingsRollingBack(w, p, saveOk) ==
  IF p.updatedSettings # None /\ ~saveOk THEN w
  ELSE LET w1 == [w EXCEPT !.e.currentBreakMessage = p.message]
       IN IF p.updatedSettings # None
          THEN [w1 EXCEPT !.s = p.updatedSettings[1]]
          ELSE w1

\* updateCurrentBreakMessageFromSettings after its first await (lines 106-116);
\* saveOk is FALSE when setSettings throws
updateCurrentBreakMessageFromSettings(w, p, saveOk) ==
  LET w1 == [w EXCEPT !.e.currentBreakMessage = p.message]
  IN IF p.updatedSettings # None /\ saveOk
     THEN setSettings(w1, p.updatedSettings[1], FALSE)
     ELSE w1

\* doBreak after its await (lines 534-589)
doBreakResumed(w, p) ==
  IF ~w.e.havingBreak
  THEN [w EXCEPT !.e.currentBreakStartTime = Null]
  ELSE LET breakLengthSeconds == Max(1, getBreakLengthSeconds(w))
           breakDurationMs == breakLengthSeconds * MsPerSecond
           w1 == [w EXCEPT !.e = recordBreakMessageInHistory(
                                   [w.e EXCEPT !.currentBreakTotalDurationMs = breakDurationMs,
                                               !.currentBreakRemainingMs = breakDurationMs,
                                               !.currentBreakEndTimestamp = Null,
                                               !.breakCountdownPaused = FALSE],
                                   p.message, breakDurationMs)]
       IN IF p.settings.notificationType = "NOTIFICATION"
          THEN LET w2 == showNotification(w1, "Time for a break!", w1.e.currentBreakMessage)
                   w3 == IF p.settings.soundType # "NONE"
                         THEN sendIpc(w2, "SoundStartPlay", 0, 0) ELSE w2
                   w4 == completeBreakTracking(w3, breakDurationMs)
                   existingBreakTime == w4.e.breakTime
                   w5 == [w4 EXCEPT !.e = [resetCurrentBreakTimerState(w4.e) EXCEPT
                                             !.havingBreak = FALSE,
                                             !.startedFromTray = FALSE]]
               IN IF existingBreakTime = Null \/ existingBreakTime <= now
                  THEN scheduleNextBreak([w5 EXCEPT !.e.postponedCount = 0,
                                                    !.e.breakTime = Null], FALSE)
                  ELSE w5
          ELSE IF p.settings.notificationType = "POPUP"
               THEN createBreakWindows(w1)
               ELSE w1

(***************************************************************************)
(* breaks.ts: idle and lock detection, tick.  state is the value of        *)
(* powerMonitor.getSystemIdleState, idleTime that of getSystemIdleTime.    *)
(***************************************************************************)
checkIdle(w, state) ==
  IF state = "locked"
  THEN IF ~w.s.idleResetEnabled
       THEN [w |-> [w EXCEPT !.e.lockStart = Null], idle |-> FALSE]
       ELSE IF w.e.lockStart = Null
            THEN [w |-> [w EXCEPT !.e.lockStart = now], idle |-> FALSE]
            ELSE [w |-> w,
                  idle |-> RoundToSeconds(now - w.e.lockStart) > getIdleResetSeconds(w.s)]
  ELSE [w |-> [w EXCEPT !.e.lockStart = Null],
        idle |-> IF ~w.s.idleResetEnabled THEN FALSE ELSE state = "idle"]

\* A variant that forgets the break in progress
checkShouldHaveBreakWhileActive(w, state) ==
  LET c == checkIdle(w, state)
  IN [w |-> c.w,
      should |-> w.s.breaksEnabled /\ checkInWorkingHours(w.s) /\ ~c.idle]

\* A variant that forgets the working hours
checkShouldHaveBreakAnyHour(w, state) ==
  LET c == checkIdle(w, state)
  IN [w |-> c.w,
      should |-> ~w.e.havingBreak /\ w.s.breaksEnabled /\ ~c.idle]

checkShouldHaveBreak(w, state) ==
  LET inWorkingHours == checkInWorkingHours(w.s)
      c == checkIdle(w, state)
  IN [w |-> c.w,
      should |-> ~w.e.havingBreak /\ w.s.breaksEnabled /\ inWorkingHours /\ ~c.idle]

checkBreak(w, r) ==
  IF w.e.breakTime # Null /\ now > w.e.breakTime THEN doBreak(w, r) ELSE w

startBreakNow(w) ==
  [w EXCEPT !.e.startedFromTray = TRUE, !.e.breakTime = now]

\* A variant that looks at the time since the last tick before the lock
tickAnomaliesSleepFirst(w, s) ==
  LET idleResetSeconds == getSecondsFromSettings(s.idleResetLengthSeconds)
      msSinceLastTick == IF w.e.lastTick # Null THEN Abs(now - w.e.lastTick) ELSE 0
      breakSeconds == getBreakSeconds(s)
      lockMs == IF w.e.lockStart # Null THEN Abs(now - w.e.lockStart) ELSE Null
  IN IF msSinceLastTick > breakSeconds * MsPerSecond
     THEN [w EXCEPT !.e.lockStart = Null, !.e.breakTime = Null]
     ELSE IF lockMs # Null /\ lockMs > breakSeconds * MsPerSecond
          THEN [w EXCEPT !.e.idleStart = Null, !.e.lockStart = Null]
          ELSE IF s.idleResetEnabled /\ msSinceLastTick > idleResetSeconds * MsPerSecond
               THEN scheduleNextBreak(
                      IF w.e.idleStart = Null
                      THEN [w EXCEPT !.e.lockStart = Null, !.e.idleStart = w.e.lastTick]
                      ELSE w,
                      FALSE)
               ELSE w

\* A variant whose lock handling leaves the idle period open
tickAnomaliesKeepingIdle(w, s) ==
  LET idleResetSeconds == getSecondsFromSettings(s.idleResetLengthSeconds)
      msSinceLastTick == IF w.e.lastTick # Null THEN Abs(now - w.e.lastTick) ELSE 0
      breakSeconds == getBreakSeconds(s)
      lockMs == IF w.e.lockStart # Null THEN Abs(now - w.e.lockStart) ELSE Null
  IN IF lockMs # Null /\ lockMs > breakSeconds * MsPerSecond
     THEN [w EXCEPT !.e.lockStart = Null]
     ELSE IF msSinceLastTick > breakSeconds * MsPerSecond
          THEN [w EXCEPT !.e.lockStart = Null, !.e.breakTime = Null]
          ELSE IF s.idleResetEnabled /\ msSinceLastTick > idleResetSeconds * MsPerSecond
               THEN scheduleNextBreak(
                      IF w.e.idleStart = Null
                      THEN [w EXCEPT !.e.lockStart = Null, !.e.idleStart = w.e.lastTick]
                      ELSE w,
                      FALSE)
               ELSE w

\* The first if / else-if chain of tick (lines 712-736)
\* A variant that anchors the idle period of an idle gap at the present time
tickAnomaliesAnchoredNow(w, s) ==
  LET idleResetSeconds == getSecondsFromSettings(s.idleResetLengthSeconds)
      msSinceLastTick == IF w.e.lastTick # Null THEN Abs(now - w.e.lastTick) ELSE 0
      breakSeconds == getBreakSeconds(s)
      lockMs == IF w.e.lockStart # Null THEN Abs(now - w.e.lockStart) ELSE Null
  IN IF lockMs # Null /\ lockMs > breakSeconds * MsPerSecond
     THEN [w EXCEPT !.e.idleStart = Null, !.e.lockStart = Null]
     ELSE IF msSinceLastTick > breakSeconds * MsPerSecond
          THEN [w EXCEPT !.e.lockStart = Null, !.e.breakTime = Null]
          ELSE IF s.idleResetEnabled /\ msSinceLastTick > idleResetSeconds * MsPerSecond
               THEN scheduleNextBreak(
                      IF w.e.idleStart = Null
                      THEN [w EXCEPT !.e.lockStart = Null, !.e.idleStart = now]
                      ELSE w,
                      FALSE)
               ELSE w

tickAnomalies(w, s) ==
  LET idleResetSeconds == getSecondsFromSettings(s.idleResetLengthSeconds)
      msSinceLastTick == IF w.e.lastTick # Null THEN Abs(now - w.e.lastTick) ELSE 0
      breakSeconds == getBreakSeconds(s)
      lockMs == IF w.e.lockStart # Null THEN Abs(now - w.e.lockStart) ELSE Null
  IN IF lockMs # Null /\ lockMs > breakSeconds * MsPerSecond
     THEN [w EXCEPT !.e.idleStart = Null, !.e.lockStart = Null]
     ELSE IF msSinceLastTick > breakSeconds * MsPerSecond
          THEN [w EXCEPT !.e.lockStart = Null, !.e.breakTime = Null]
          ELSE IF s.idleResetEnabled /\ msSinceLastTick > idleResetSeconds * MsPerSecond
               THEN scheduleNextBreak(
                      IF w.e.idleStart = Null
                      THEN [w EXCEPT !.e.lockStart = Null, !.e.idleStart = w.e.lastTick]
                      ELSE w,
                      FALSE)
               ELSE w

\* A variant that starts the idle period at the time of the tick
tickIdleFromNow(w, state, idleTime, r) ==
  LET s == w.s
      c == checkShouldHaveBreak(w, state)
      shouldHaveBreak == c.should
      w2 == tickAnomalies(c.w, s)
      body ==
        IF ~shouldHaveBreak /\ ~w2.e.havingBreak /\ w2.e.breakTime # Null
        THEN LET c2 == checkIdle(w2, state)
                 w3 == IF c2.idle
                       THEN [c2.w EXCEPT !.e.idleStart = now]
                       ELSE c2.w
             IN [w3 EXCEPT !.e.breakTime = Null]
        ELSE IF shouldHaveBreak /\ w2.e.breakTime = Null
             THEN scheduleNextBreak(w2, FALSE)
             ELSE IF shouldHaveBreak THEN checkBreak(w2, r) ELSE w2
  IN [body EXCEPT !.e.lastTick = now]

\* A variant that fires a break in the tick that scheduled it
tickFiringAfterScheduling(w, state, idleTime, r) ==
  LET s == w.s
      c == checkShouldHaveBreak(w, state)
      shouldHaveBreak == c.should
      w2 == tickAnomalies(c.w, s)
      body ==
        IF ~shouldHaveBreak /\ ~w2.e.havingBreak /\ w2.e.breakTime # Null
        THEN LET c2 == checkIdle(w2, state)
                 w3 == IF c2.idle
                       THEN [c2.w EXCEPT !.e.idleStart = now - idleTime * MsPerSecond]
                       ELSE c2.w
             IN [w3 EXCEPT !.e.breakTime = Null]
        ELSE IF shouldHaveBreak /\ w2.e.breakTime = Null
             THEN doBreak(scheduleNextBreak(w2, FALSE), r)
             ELSE IF shouldHaveBreak THEN checkBreak(w2, r) ELSE w2
  IN [body EXCEPT !.e.lastTick = now]

\* A variant whose step 6 looks at the schedule while a break is active
tickFiringWhileActive(w, state, idleTime, r) ==
  LET s == w.s
      c == checkShouldHaveBreak(w, state)
      shouldHaveBreak == c.should
      w2 == tickAnomalies(c.w, s)
      body ==
        IF ~shouldHaveBreak /\ ~w2.e.havingBreak /\ w2.e.breakTime # Null
        THEN LET c2 == checkIdle(w2, state)
                 w3 == IF c2.idle
                       THEN [c2.w EXCEPT !.e.idleStart = now - idleTime * MsPerSecond]
                       ELSE c2.w
             IN [w3 EXCEPT !.e.breakTime = Null]
        ELSE IF shouldHaveBreak /\ w2.e.breakTime = Null
             THEN scheduleNextBreak(w2, FALSE)
             ELSE checkBreak(w2, r)
  IN [body EXCEPT !.e.lastTick = now]

\* A variant whose step 5 schedules whether or not a break is scheduled
tickAlwaysRescheduling(w, state, idleTime, r) ==
  LET s == w.s
      c == checkShouldHaveBreak(w, state)
      shouldHaveBreak == c.should
      w2 == tickAnomalies(c.w, s)
      body ==
        IF ~shouldHaveBreak /\ ~w2.e.havingBreak /\ w2.e.breakTime # Null
        THEN LET c2 == checkIdle(w2, state)
                 w3 == IF c2.idle
                       THEN [c2.w EXCEPT !.e.idleStart = now - idleTime * MsPerSecond]
                       ELSE c2.w
             IN [w3 EXCEPT !.e.breakTime = Null]
        ELSE IF shouldHaveBreak
             THEN scheduleNextBreak(w2, FALSE)
             ELSE w2
  IN [body EXCEPT !.e.lastTick = now]

tick(w, state, idleTime, r) ==
  LET s == w.s
      c == checkShouldHaveBreak(w, state)
      shouldHaveBreak == c.should
      w2 == tickAnomalies(c.w, s)
      body ==
        IF ~shouldHaveBreak /\ ~w2.e.havingBreak /\ w2.e.breakTime # Null
        THEN LET c2 == checkIdle(w2, state)
                 w3 == IF c2.idle
                       THEN [c2.w EXCEPT !.e.idleStart = now - idleTime * MsPerSecond]
                       ELSE c2.w
             IN [w3 EXCEPT !.e.breakTime = Null]
        ELSE IF shouldHaveBreak /\ w2.e.breakTime = Null
             THEN scheduleNextBreak(w2, FALSE)
             ELSE IF shouldHaveBreak THEN checkBreak(w2, r) ELSE w2
  IN [body EXCEPT !.e.lastTick = now]

(***************************************************************************)
(* tick when a collaborator call raises.  at names the call: the settings  *)
(* read of line 695, the idle query of line 634 (called from 699), the     *)
(* idle-time query of line 741, buildTray (lines 472 and 745) or the       *)
(* settings read of doBreak (line 530); "none" raises nothing.  A call     *)
(* that the tick does not reach raises nothing.  tick is an async function *)
(* without a catch clause and is called by setInterval (line 782), and     *)
(* checkBreak is called without await (line 755): an error ends the call   *)
(* as a rejected promise that no handler receives.                         *)
(***************************************************************************)
FaultPoints == {"getSettings", "getSystemIdleState", "getSystemIdleTime",
                "buildTray", "doBreak"}

Raise(w, at) == Emit(w, Fx("unhandledRejection", at, 0))

Rejected(effects) ==
  \E i \in 1..Len(effects) : effects[i].k = "unhandledRejection"

\* The third branch of the chain of lines 712-736 is the one taken
idleGapDetected(w, s) ==
  LET msSinceLastTick == IF w.e.lastTick # Null THEN Abs(now - w.e.lastTick) ELSE 0
      lockMs == IF w.e.lockStart # Null THEN Abs(now - w.e.lockStart) ELSE Null
  IN /\ ~(lockMs # Null /\ lockMs > getBreakSeconds(s) * MsPerSecond)
     /\ ~(msSinceLastTick > getBreakSeconds(s) * MsPerSecond)
     /\ s.idleResetEnabled
     /\ msSinceLastTick > getSecondsFromSettings(s.idleResetLengthSeconds) * MsPerSecond

\* The try block of tick (lines 695-756)
tickTry(w, state, idleTime, r, at) ==
  LET s == w.s
      c == checkShouldHaveBreak(w, state)
      shouldHaveBreak == c.should
      w2 == tickAnomalies(c.w, s)
  IN IF at = "getSettings" \/ at = "getSystemIdleState" THEN Raise(w, at)
     ELSE IF at = "buildTray" /\ idleGapDetected(c.w, s) THEN Raise(w2, at)
     ELSE IF ~shouldHaveBreak /\ ~w2.e.havingBreak /\ w2.e.breakTime # Null
          THEN LET c2 == checkIdle(w2, state)
                   w3 == IF c2.idle
                         THEN [c2.w EXCEPT !.e.idleStart = now - idleTime * MsPerSecond]
                         ELSE c2.w
                   w4 == [w3 EXCEPT !.e.breakTime = Null]
               IN IF c2.idle /\ at = "getSystemIdleTime" THEN Raise(c2.w, at)
                  ELSE IF at = "buildTray" THEN Raise(w4, at)
                       ELSE w4
          ELSE IF shouldHaveBreak /\ w2.e.breakTime = Null
               THEN IF at = "buildTray"
                    THEN Raise(scheduleNextBreak(w2, FALSE), at)
                    ELSE scheduleNextBreak(w2, FALSE)
               ELSE IF shouldHaveBreak /\ w2.e.breakTime # Null /\ now > w2.e.breakTime
                    THEN IF at = "doBreak"
                         THEN Raise(startBreakTracking(
                                      [w2 EXCEPT !.e.havingBreak = TRUE]), at)
                         ELSE doBreak(w2, r)
                    ELSE w2

\* A variant whose last assignment is skipped when the try block raises
tickThrowingWithoutFinally(w, state, idleTime, r, at) ==
  LET t == tickTry(w, state, idleTime, r, at)
  IN IF Rejected(t.fx) THEN t ELSE [t EXCEPT !.e.lastTick = now]

\* tick with its finally clause (lines 757-759)
tickThrowing(w, state, idleTime, r, at) ==
  [tickTry(w, state, idleTime, r, at) EXCEPT !.e.lastTick = now]


(***************************************************************************)
(* breaks.ts: the countdown of the active break                            *)
(***************************************************************************)
MIN_DURATION_MS == 1000

\* A variant that starts a countdown whether or not a break is active
beginBreakCountdownUnguarded(w) ==
  LET totalMs == IF w.e.currentBreakTotalDurationMs # Null
                 THEN w.e.currentBreakTotalDurationMs
                 ELSE Max(1, getBreakLengthSeconds(w)) * MsPerSecond
  IN Return([w EXCEPT !.e.currentBreakTotalDurationMs = totalMs,
                      !.e.currentBreakRemainingMs = totalMs,
                      !.e.currentBreakEndTimestamp = now + totalMs,
                      !.e.breakCountdownPaused = FALSE],
            Some([breakEndTime |-> now + totalMs, totalDurationMs |-> totalMs]))

beginBreakCountdown(w) ==
  IF ~w.e.havingBreak THEN Return(w, None)
  ELSE LET totalMs == IF w.e.currentBreakTotalDurationMs # Null
                      THEN w.e.currentBreakTotalDurationMs
                      ELSE Max(1, getBreakLengthSeconds(w)) * MsPerSecond
           w1 == [w EXCEPT !.e.currentBreakTotalDurationMs = totalMs]
       IN IF w1.e.breakCountdownPaused
          THEN LET remaining == IF w1.e.currentBreakRemainingMs # Null
                                THEN w1.e.currentBreakRemainingMs ELSE totalMs
               IN Return([w1 EXCEPT !.e.currentBreakRemainingMs = remaining,
                                    !.e.currentBreakEndTimestamp = now + remaining,
                                    !.e.breakCountdownPaused = FALSE],
                         Some([breakEndTime |-> now + remaining,
                               totalDurationMs |-> totalMs]))
          ELSE IF w1.e.currentBreakEndTimestamp # Null
               THEN Return([w1 EXCEPT !.e.currentBreakRemainingMs =
                                        Max(0, w1.e.currentBreakEndTimestamp - now)],
                           Some([breakEndTime |-> w1.e.currentBreakEndTimestamp,
                                 totalDurationMs |-> totalMs]))
               ELSE Return([w1 EXCEPT !.e.currentBreakRemainingMs = totalMs,
                                      !.e.currentBreakEndTimestamp = now + totalMs,
                                      !.e.breakCountdownPaused = FALSE],
                           Some([breakEndTime |-> now + totalMs,
                                 totalDurationMs |-> totalMs]))

\* A variant that keeps the end timestamp of the countdown it pauses
pauseActiveBreakKeepingEnd(w) ==
  IF ~w.e.havingBreak THEN Return(w, None)
  ELSE IF w.e.breakCountdownPaused
       THEN Return(w, Some([remainingMs |->
                              IF w.e.currentBreakRemainingMs # Null
                              THEN w.e.currentBreakRemainingMs ELSE 0,
                            totalDurationMs |->
                              IF w.e.currentBreakTotalDurationMs # Null
                              THEN w.e.currentBreakTotalDurationMs ELSE 0]))
       ELSE LET remainingMs ==
                  IF w.e.currentBreakEndTimestamp # Null
                  THEN Max(0, w.e.currentBreakEndTimestamp - now)
                  ELSE IF w.e.currentBreakRemainingMs # Null
                       THEN w.e.currentBreakRemainingMs ELSE 0
            IN Return([w EXCEPT !.e.currentBreakRemainingMs = remainingMs,
                                !.e.breakCountdownPaused = TRUE],
                      Some([remainingMs |-> remainingMs,
                            totalDurationMs |->
                              IF w.e.currentBreakTotalDurationMs # Null
                              THEN w.e.currentBreakTotalDurationMs ELSE remainingMs]))

pauseActiveBreak(w) ==
  IF ~w.e.havingBreak THEN Return(w, None)
  ELSE IF w.e.breakCountdownPaused
       THEN Return(w, Some([remainingMs |->
                              IF w.e.currentBreakRemainingMs # Null
                              THEN w.e.currentBreakRemainingMs ELSE 0,
                            totalDurationMs |->
                              IF w.e.currentBreakTotalDurationMs # Null
                              THEN w.e.currentBreakTotalDurationMs ELSE 0]))
       ELSE LET remainingMs ==
                  IF w.e.currentBreakEndTimestamp # Null
                  THEN Max(0, w.e.currentBreakEndTimestamp - now)
                  ELSE IF w.e.currentBreakRemainingMs # Null
                       THEN w.e.currentBreakRemainingMs ELSE 0
            IN Return([w EXCEPT !.e.currentBreakRemainingMs = remainingMs,
                                !.e.currentBreakEndTimestamp = Null,
                                !.e.breakCountdownPaused = TRUE],
                      Some([remainingMs |-> remainingMs,
                            totalDurationMs |->
                              IF w.e.currentBreakTotalDurationMs # Null
                              THEN w.e.currentBreakTotalDurationMs ELSE remainingMs]))

\* A variant that restarts the countdown from the total duration
resumeActiveBreakFromTotal(w) ==
  IF ~w.e.havingBreak \/ ~w.e.breakCountdownPaused THEN Return(w, None)
  ELSE LET totalMs == IF w.e.currentBreakTotalDurationMs # Null
                      THEN w.e.currentBreakTotalDurationMs ELSE 0
       IN Return([w EXCEPT !.e.currentBreakEndTimestamp = now + totalMs,
                           !.e.currentBreakRemainingMs = totalMs,
                           !.e.breakCountdownPaused = FALSE],
                 Some([breakEndTime |-> now + totalMs, totalDurationMs |-> totalMs]))

\* A variant that re-arms a running countdown from the stored remaining time
resumeActiveBreakRearming(w) ==
  IF ~w.e.havingBreak THEN Return(w, None)
  ELSE LET remainingMs ==
             IF w.e.currentBreakRemainingMs # Null
             THEN w.e.currentBreakRemainingMs
             ELSE IF w.e.currentBreakTotalDurationMs # Null
                  THEN w.e.currentBreakTotalDurationMs ELSE 0
       IN IF w.e.breakCountdownPaused /\ remainingMs <= 0 THEN Return(w, None)
          ELSE Return([w EXCEPT !.e.currentBreakEndTimestamp = now + remainingMs,
                                !.e.breakCountdownPaused = FALSE],
                      Some([breakEndTime |-> now + remainingMs,
                            totalDurationMs |->
                              IF w.e.currentBreakTotalDurationMs # Null
                              THEN w.e.currentBreakTotalDurationMs
                              ELSE remainingMs]))

\* A variant that resumes a paused countdown with no time left
resumeActiveBreakFromZero(w) ==
  IF ~w.e.havingBreak THEN Return(w, None)
  ELSE IF ~w.e.breakCountdownPaused
       THEN LET endTimestamp ==
                  IF w.e.currentBreakEndTimestamp # Null
                  THEN w.e.currentBreakEndTimestamp
                  ELSE now + (IF w.e.currentBreakRemainingMs # Null
                              THEN w.e.currentBreakRemainingMs ELSE 0)
            IN Return([w EXCEPT !.e.currentBreakEndTimestamp = endTimestamp],
                      Some([breakEndTime |-> endTimestamp,
                            totalDurationMs |->
                              IF w.e.currentBreakTotalDurationMs # Null
                              THEN w.e.currentBreakTotalDurationMs
                              ELSE IF w.e.currentBreakRemainingMs # Null
                                   THEN w.e.currentBreakRemainingMs ELSE 0]))
       ELSE LET remainingMs ==
                  IF w.e.currentBreakRemainingMs # Null
                  THEN w.e.currentBreakRemainingMs
                  ELSE IF w.e.currentBreakTotalDurationMs # Null
                       THEN w.e.currentBreakTotalDurationMs ELSE 0
            IN Return([w EXCEPT !.e.currentBreakEndTimestamp = now + remainingMs,
                                !.e.breakCountdownPaused = FALSE],
                      Some([breakEndTime |-> now + remainingMs,
                            totalDurationMs |->
                              IF w.e.currentBreakTotalDurationMs # Null
                              THEN w.e.currentBreakTotalDurationMs
                              ELSE remainingMs]))

resumeActiveBreak(w) ==
  IF ~w.e.havingBreak THEN Return(w, None)
  ELSE IF ~w.e.breakCountdownPaused
       THEN LET endTimestamp ==
                  IF w.e.currentBreakEndTimestamp # Null
                  THEN w.e.currentBreakEndTimestamp
                  ELSE now + (IF w.e.currentBreakRemainingMs # Null
                              THEN w.e.currentBreakRemainingMs ELSE 0)
            IN Return([w EXCEPT !.e.currentBreakEndTimestamp = endTimestamp],
                      Some([breakEndTime |-> endTimestamp,
                            totalDurationMs |->
                              IF w.e.currentBreakTotalDurationMs # Null
                              THEN w.e.currentBreakTotalDurationMs
                              ELSE IF w.e.currentBreakRemainingMs # Null
                                   THEN w.e.currentBreakRemainingMs ELSE 0]))
       ELSE LET remainingMs ==
                  IF w.e.currentBreakRemainingMs # Null
                  THEN w.e.currentBreakRemainingMs
                  ELSE IF w.e.currentBreakTotalDurationMs # Null
                       THEN w.e.currentBreakTotalDurationMs ELSE 0
            IN IF remainingMs <= 0 THEN Return(w, None)
               ELSE Return([w EXCEPT !.e.currentBreakEndTimestamp = now + remainingMs,
                                     !.e.breakCountdownPaused = FALSE],
                           Some([breakEndTime |-> now + remainingMs,
                                 totalDurationMs |->
                                   IF w.e.currentBreakTotalDurationMs # Null
                                   THEN w.e.currentBreakTotalDurationMs
                                   ELSE remainingMs]))

\* A variant without the lower bound
ClampNoFloor(x, lo, hi) == IF x > hi THEN hi ELSE x

Clamp(x, lo, hi) == IF x < lo THEN lo ELSE IF x > hi THEN hi ELSE x

\* The argument deltaMs of adjustActiveBreakDuration is any JavaScript value:
\* JsNumber(ms, tenths) is the number ms + tenths / 10 (ms its floor), or NaN,
\* or a value that is not a number (Undefined), with tenths = 0
JsNumber(ms, tenths) == [ms |-> ms, tenths |-> tenths]

\* Math.round: the nearest integer, a half rounding up
MathRound(d) == d.ms + (IF d.tenths >= 5 THEN 1 ELSE 0)

\* A variant that truncates the fraction
normalizeDeltaTruncated(deltaMs) ==
  IF deltaMs.ms # Undefined /\ IsFinite(deltaMs.ms) THEN deltaMs.ms ELSE 0

\* isDeltaValid and normalizedDelta (lines 920-921)
normalizeDelta(deltaMs) ==
  IF deltaMs.ms # Undefined /\ IsFinite(deltaMs.ms) THEN MathRound(deltaMs) ELSE 0

\* A variant that leaves a paused countdown paused when it reaches zero
adjustActiveBreakDurationStayingPaused(w, deltaMs) ==
  IF ~w.e.havingBreak \/ normalizeDelta(deltaMs) = 0 THEN Return(w, None)
  ELSE LET adjustedTotal ==
             Max(MIN_DURATION_MS,
                 Max(MIN_DURATION_MS,
                     IF w.e.currentBreakTotalDurationMs # Null
                     THEN w.e.currentBreakTotalDurationMs ELSE MIN_DURATION_MS)
                 + normalizeDelta(deltaMs))
           baseRemaining ==
             IF ~w.e.breakCountdownPaused /\ w.e.currentBreakEndTimestamp # Null
             THEN Max(0, w.e.currentBreakEndTimestamp - now)
             ELSE Max(0, IF w.e.currentBreakRemainingMs # Null
                         THEN w.e.currentBreakRemainingMs ELSE adjustedTotal)
           adjustedRemaining ==
             Clamp(baseRemaining + normalizeDelta(deltaMs), 0, adjustedTotal)
           w1 == [w EXCEPT !.e = updateCurrentHistoryEntryDuration(
                                   [w.e EXCEPT
                                      !.currentBreakTotalDurationMs = adjustedTotal,
                                      !.currentBreakRemainingMs = adjustedRemaining],
                                   adjustedTotal)]
       IN IF w.e.breakCountdownPaused
          THEN Return([w1 EXCEPT !.e.currentBreakEndTimestamp = Null],
                      Some([channel |-> "BreakPause", a |-> adjustedRemaining,
                            totalDurationMs |-> adjustedTotal]))
          ELSE Return([w1 EXCEPT !.e.currentBreakEndTimestamp = now + adjustedRemaining],
                      Some([channel |-> "BreakStart", a |-> now + adjustedRemaining,
                            totalDurationMs |-> adjustedTotal]))

\* The result names the channel to broadcast on
adjustActiveBreakDuration(w, deltaMs) ==
  IF ~w.e.havingBreak THEN Return(w, None)
  ELSE LET normalizedDelta == normalizeDelta(deltaMs)
       IN IF normalizedDelta = 0 THEN Return(w, None)
          ELSE LET existingTotal ==
                     Max(MIN_DURATION_MS,
                         IF w.e.currentBreakTotalDurationMs # Null
                         THEN w.e.currentBreakTotalDurationMs ELSE MIN_DURATION_MS)
                   adjustedTotal == Max(MIN_DURATION_MS, existingTotal + normalizedDelta)
                   baseRemaining ==
                     IF w.e.breakCountdownPaused
                     THEN Max(0, IF w.e.currentBreakRemainingMs # Null
                                 THEN w.e.currentBreakRemainingMs ELSE adjustedTotal)
                     ELSE IF w.e.currentBreakEndTimestamp # Null
                          THEN Max(0, w.e.currentBreakEndTimestamp - now)
                          ELSE Max(0, IF w.e.currentBreakRemainingMs # Null
                                      THEN w.e.currentBreakRemainingMs
                                      ELSE adjustedTotal)
                   adjustedRemaining ==
                     Clamp(baseRemaining + normalizedDelta, 0, adjustedTotal)
                   w1 == [w EXCEPT !.e = updateCurrentHistoryEntryDuration(
                                           [w.e EXCEPT
                                              !.currentBreakTotalDurationMs = adjustedTotal,
                                              !.currentBreakRemainingMs = adjustedRemaining],
                                           adjustedTotal)]
               IN IF adjustedRemaining = 0
                  THEN Return([w1 EXCEPT !.e.currentBreakEndTimestamp = now,
                                         !.e.breakCountdownPaused = FALSE],
                              Some([channel |-> "BreakStart", a |-> now,
                                    totalDurationMs |-> adjustedTotal]))
                  ELSE IF w.e.breakCountdownPaused
                       THEN Return([w1 EXCEPT !.e.currentBreakEndTimestamp = Null,
                                              !.e.breakCountdownPaused = TRUE],
                                   Some([channel |-> "BreakPause", a |-> adjustedRemaining,
                                         totalDurationMs |-> adjustedTotal]))
                       ELSE Return([w1 EXCEPT !.e.currentBreakEndTimestamp =
                                                now + adjustedRemaining,
                                              !.e.breakCountdownPaused = FALSE],
                                   Some([channel |-> "BreakStart",
                                         a |-> now + adjustedRemaining,
                                         totalDurationMs |-> adjustedTotal]))

\* getCurrentBreakRemainingMs (lines 1028-1038)
getCurrentBreakRemainingMs(e) ==
  IF e.breakCountdownPaused THEN e.currentBreakRemainingMs
  ELSE IF e.currentBreakEndTimestamp # Null
       THEN Max(0, e.currentBreakEndTimestamp - now)
       ELSE Null

(***************************************************************************)
(* breaks.ts: message navigation                                           *)
(***************************************************************************)
\* A variant that selects a new message whatever the history holds
skipCurrentBreakMessageAlwaysSelecting(w, r) ==
  IF ~w.e.havingBreak
  THEN Return(w, Some(createBreakMessageSwitchResult(
                        w.e, resolveMessageDurationMs(w.s, w.e.currentBreakMessage), w.s)))
  ELSE Suspend(w, "skip", determineNextBreakMessage(w.s, r.rnd1, r.rnd2, r.pick), w.s)

\* skipCurrentBreakMessage up to its await (lines 1046-1065)
skipCurrentBreakMessage(w, r) ==
  IF ~w.e.havingBreak
  THEN Return(w, Some(createBreakMessageSwitchResult(
                        w.e, resolveMessageDurationMs(w.s, w.e.currentBreakMessage), w.s)))
  ELSE LET nextHistoryIndex == w.e.breakMessageHistoryIndex + 1
           historyEntry == getHistoryEntry(w.e, nextHistoryIndex)
       IN IF historyEntry # None
          THEN applyBreakMessageEntry(
                 [w EXCEPT !.e.breakMessageHistoryIndex = nextHistoryIndex],
                 historyEntry[1], w.s)
          ELSE Suspend(w, "skip",
                       determineNextBreakMessage(w.s, r.rnd1, r.rnd2, r.pick), w.s)

\* skipCurrentBreakMessage after its await (lines 1066-1074)
skipResumed(w, p) ==
  LET targetDurationMs == resolveMessageDurationMs(p.settings, p.message)
      w1 == [w EXCEPT !.e = recordBreakMessageInHistory(w.e, p.message, targetDurationMs)]
      currentEntry == getCurrentHistoryEntry(w1.e)
  IN IF currentEntry # None
     THEN applyBreakMessageEntry(w1, currentEntry[1], p.settings)
     ELSE Return(w1, Some(createBreakMessageSwitchResult(
                            w1.e, targetDurationMs, p.settings)))

\* A variant that shows the current entry again when there is none before it
goToPreviousBreakMessageReapplying(w) ==
  LET fallback == Return(w, Some(createBreakMessageSwitchResult(
                    w.e, resolveMessageDurationMs(w.s, w.e.currentBreakMessage), w.s)))
      previousHistoryIndex == Max(0, w.e.breakMessageHistoryIndex - 1)
      previousEntry == getHistoryEntry(w.e, previousHistoryIndex)
  IN IF ~w.e.havingBreak THEN fallback
     ELSE IF previousEntry = None THEN fallback
          ELSE applyBreakMessageEntry(
                 [w EXCEPT !.e.breakMessageHistoryIndex = previousHistoryIndex],
                 previousEntry[1], w.s)

goToPreviousBreakMessage(w) ==
  LET fallback == Return(w, Some(createBreakMessageSwitchResult(
                    w.e, resolveMessageDurationMs(w.s, w.e.currentBreakMessage), w.s)))
      previousHistoryIndex == w.e.breakMessageHistoryIndex - 1
      previousEntry == getHistoryEntry(w.e, previousHistoryIndex)
  IN IF ~w.e.havingBreak THEN fallback
     ELSE IF previousHistoryIndex < 0 THEN fallback
          ELSE IF previousEntry = None THEN fallback
               ELSE applyBreakMessageEntry(
                      [w EXCEPT !.e.breakMessageHistoryIndex = previousHistoryIndex],
                      previousEntry[1], w.s)


(***************************************************************************)
(* The environment of the engine specification                             *)
(***************************************************************************)
\* Monday 1970-01-05 09:00:00.000
T0 == 4 * MsPerDay + 9 * 60 * MsPerMinute
\* The period of the interval timer (line 782)
TickPeriodMs == 1000

IdleStates == {"active", "idle", "locked", "unknown"}
IdleTimes == {2}
PostponeActions == {"snoozed", "skipped"}
\* The deltas the adjust-duration action is given: -1000, 999.5 and NaN
Deltas == {JsNumber(0 - 1000, 0), JsNumber(999, 5), JsNumber(NaN, 0)}
\* The deltas the adjustment is evaluated on in every state: those above and
\* 1000, 0, 0.4, -0.5, -1000.4 and a value that is not a number.  A delta of
\* this set has the rounded value of one of Deltas, so it leads to no further
\* state
DeltaCases ==
  Deltas \cup {JsNumber(1000, 0), JsNumber(0, 0), JsNumber(0, 4),
               JsNumber(0 - 1, 5), JsNumber(0 - 1001, 6), JsNumber(Undefined, 0)}

PopupProfile ==
  [defaultSettings EXCEPT !.breakFrequencySeconds = 2,
                          !.breakLengthSeconds = 2,
                          !.postponeLengthSeconds = 1,
                          !.postponeLimit = 1,
                          !.idleResetLengthSeconds = 1,
                          !.idleResetNotification = TRUE,
                          !.breakMessages = <<0, 1>>,
                          !.breakMessagesMode = "SEQUENTIAL",
                          !.breakMessagesOrder = ArrayOf(<<1, 0>>)]

NotificationProfile ==
  [defaultSettings EXCEPT !.notificationType = "NOTIFICATION",
                          !.breakFrequencySeconds = 0,
                          !.breakLengthSeconds = 1,
                          !.postponeLengthSeconds = NaN,
                          !.idleResetEnabled = FALSE,
                          !.workingHoursEnabled = FALSE,
                          !.breakMessages = <<0, 1>>]

OffHoursProfile ==
  [PopupProfile EXCEPT !.workingHours[1] = DayDisabled,
                       !.postponeLimit = 0,
                       !.breakMessages = <<>>,
                       !.breakMessagesOrder = NotAnArray]

\* The popup profile with a frequency the engine has to replace (line 398)
CountdownProfile == [PopupProfile EXCEPT !.breakFrequencySeconds = 0]

Profiles == {PopupProfile, NotificationProfile, OffHoursProfile}

(***************************************************************************)
(* Actions: one per timer callback, inbound operation or resumed await     *)
(***************************************************************************)
\* A variant in which a handler may start while a call is suspended
CommitWhileSuspended(op, w) ==
  /\ (op = "tick" \/ eng.lastTick = Null \/ now - eng.lastTick < TickPeriodMs)
  /\ Len(pending) < 2
  /\ eng' = w.e
  /\ settings' = w.s
  /\ fx' = w.fx
  /\ pending' = pending \o w.spawn
  /\ UNCHANGED <<now, probe>>

Commit(op, w) ==
  /\ (op = "tick" \/ eng.lastTick = Null \/ now - eng.lastTick < TickPeriodMs)
  /\ pending = <<>>
  /\ eng' = w.e
  /\ settings' = w.s
  /\ fx' = w.fx
  /\ pending' = pending \o w.spawn
  /\ UNCHANGED <<now, probe>>

Advance ==
  /\ pending = <<>>
  /\ now + TickPeriodMs <= T0 + MaxTime * MsPerSecond
  /\ now' = now + TickPeriodMs
  /\ fx' = <<>>
  /\ UNCHANGED <<settings, eng, pending, probe>>

TickWith(state, idleTime, r) ==
  /\ eng.tickInterval
  /\ eng.lastTick = Null \/ now > eng.lastTick
  /\ Commit("tick", tick(World, state, idleTime, r))

Tick(states) ==
  \E state \in states, idleTime \in IdleTimes, r \in Randoms(settings) :
    TickWith(state, idleTime, r)

ResumeSelection ==
  \E i \in DOMAIN pending, saveOk \in BOOLEAN :
    /\ pending[i].stage = 1
    /\ (eng.lastTick = Null \/ now - eng.lastTick < TickPeriodMs)
    /\ LET w == updateCurrentBreakMessageFromSettings(World, pending[i], saveOk)
       IN /\ eng' = w.e
          /\ settings' = w.s
          /\ fx' = w.fx
          /\ pending' = [pending EXCEPT ![i].stage = 2]
          /\ UNCHANGED <<now, probe>>

Without(seq, i) == SubSeq(seq, 1, i - 1) \o SubSeq(seq, i + 1, Len(seq))

ResumeCaller ==
  \E i \in DOMAIN pending :
    /\ pending[i].stage = 2
    /\ (eng.lastTick = Null \/ now - eng.lastTick < TickPeriodMs)
    /\ LET p == pending[i]
           w == IF p.kind = "doBreak" THEN doBreakResumed(World, p)
                ELSE skipResumed(World, p)
       IN /\ eng' = w.e
          /\ settings' = w.s
          /\ fx' = w.fx
          /\ pending' = Without(pending, i)
          /\ UNCHANGED <<now, probe>>

\* A tick in which the call named at raises
TickThrowingAt(state, idleTime, r, at) ==
  /\ eng.tickInterval
  /\ eng.lastTick = Null \/ now > eng.lastTick
  /\ Rejected(tickThrowing(World, state, idleTime, r, at).fx)
  /\ Commit("tick", tickThrowing(World, state, idleTime, r, at))

TickThrowing ==
  \E state \in IdleStates, idleTime \in IdleTimes, r \in Randoms(settings),
     at \in FaultPoints :
    TickThrowingAt(state, idleTime, r, at)

EndPopupBreak == Commit("endPopupBreak", endPopupBreak(World))

PostponeWith(action) ==
  /\ eng.postponedCount < MaxPostponed
  /\ Commit("postponeBreak", postponeBreak(World, action))

BreakPostpone == \E action \in PostponeActions : PostponeWith(action)

StartBreakNow == Commit("startBreakNow", startBreakNow(World))

\* ipc.ts BreakStart handler
BreakStartHandler(w) ==
  LET r == beginBreakCountdown(w)
  IN IF r.ret = None THEN r
     ELSE sendIpc(r, "BreakStart", r.ret[1].breakEndTime, r.ret[1].totalDurationMs)

BreakStart == Commit("beginBreakCountdown", BreakStartHandler(World))

\* ipc.ts BreakPause handler
BreakPauseHandler(w) ==
  LET r == pauseActiveBreak(w)
  IN IF r.ret = None THEN r
     ELSE sendIpc(r, "BreakPause", r.ret[1].remainingMs, r.ret[1].totalDurationMs)

BreakPause == Commit("pauseActiveBreak", BreakPauseHandler(World))

\* ipc.ts BreakResume handler
BreakResumeHandler(w) ==
  LET r == resumeActiveBreak(w)
  IN IF r.ret = None THEN r
     ELSE sendIpc(r, "BreakStart", r.ret[1].breakEndTime, r.ret[1].totalDurationMs)

BreakResume == Commit("resumeActiveBreak", BreakResumeHandler(World))

\* ipc.ts BreakAdjustDuration handler
BreakAdjustDurationHandler(w, deltaMs) ==
  LET r == adjustActiveBreakDuration(w, deltaMs)
  IN IF r.ret = None THEN r
     ELSE sendIpc(r, r.ret[1].channel, r.ret[1].a, r.ret[1].totalDurationMs)

BreakAdjustDuration == \E deltaMs \in Deltas :
  /\ eng.currentBreakTotalDurationMs + normalizeDelta(deltaMs)
       <= MaxTotalSeconds * MsPerSecond
  /\ Commit("adjustActiveBreakDuration", BreakAdjustDurationHandler(World, deltaMs))

BreakMessageNext ==
  /\ Len(eng.breakMessageHistory) < MaxHistory
  /\ \E r \in Randoms(settings) :
       Commit("skipCurrentBreakMessage", skipCurrentBreakMessage(World, r))

BreakMessagePrevious == Commit("goToPreviousBreakMessage", goToPreviousBreakMessage(World))

\* ipc.ts SettingsSet handler: setSettings(settings) with resetBreaks = true
SettingsSet == \E p \in Profiles :
  Commit("setSettings", setSettings(World, p, TRUE))

\* store.ts setBreaksEnabled
SetBreaksEnabled == \E b \in BOOLEAN :
  Commit("setBreaksEnabled", setSettings(World, [settings EXCEPT !.breaksEnabled = b], FALSE))

NoProbe == [kind |-> "none", applied |-> FALSE]

InitIn(profiles) ==
  /\ now = T0
  /\ \E p \in profiles :
       LET w == initBreaks([e |-> EngineLoaded(T0), s |-> p, fx |-> <<>>,
                            ret |-> None, spawn |-> <<>>])
       IN eng = w.e /\ settings = w.s /\ fx = w.fx
  /\ pending = <<>>
  /\ probe = NoProbe

Init == InitIn(Profiles)

Next ==
  \/ Advance
  \/ Tick(IdleStates)
  \/ ResumeSelection
  \/ ResumeCaller
  \/ EndPopupBreak
  \/ BreakPostpone
  \/ StartBreakNow
  \/ SettingsSet
  \/ SetBreaksEnabled

Spec == Init /\ [][Next]_vars

NextCountdown ==
  \/ Advance
  \/ Tick({"active"})
  \/ ResumeSelection
  \/ ResumeCaller
  \/ EndPopupBreak
  \/ BreakStart
  \/ BreakPause
  \/ BreakResume
  \/ BreakAdjustDuration
  \/ BreakMessageNext
  \/ BreakMessagePrevious

InitCountdown == InitIn({CountdownProfile})

SpecCountdown == InitCountdown /\ [][NextCountdown]_vars

\* The countdown of one message: no message navigation
NextAdjust ==
  \/ Advance
  \/ Tick({"active"})
  \/ ResumeSelection
  \/ ResumeCaller
  \/ EndPopupBreak
  \/ BreakStart
  \/ BreakPause
  \/ BreakResume
  \/ BreakAdjustDuration

SpecAdjust == InitCountdown /\ [][NextAdjust]_vars

\* The messages of one break: the countdown is started, paused and resumed
\* and the messages are stepped through, with no duration adjustment
NextHistory ==
  \/ Advance
  \/ Tick({"active"})
  \/ ResumeSelection
  \/ ResumeCaller
  \/ EndPopupBreak
  \/ BreakStart
  \/ BreakPause
  \/ BreakResume
  \/ BreakMessageNext
  \/ BreakMessagePrevious

SpecHistory == InitCountdown /\ [][NextHistory]_vars

\* The entries of one break's history: the break that the tick begins is
\* never ended, while its countdown is paused, resumed and adjusted and its
\* messages are stepped through
NextEntries ==
  \/ Advance
  \/ Tick({"active"})
  \/ ResumeSelection
  \/ ResumeCaller
  \/ BreakPause
  \/ BreakResume
  \/ BreakAdjustDuration
  \/ BreakMessageNext
  \/ BreakMessagePrevious

SpecEntries == InitCountdown /\ [][NextEntries]_vars

\* The postpone request as the break window sends it: a snooze while a break
\* is shown
PostponeDuringBreak == eng.havingBreak /\ PostponeWith("snoozed")

\* The countdown profile with a snooze of one minute
OperationsProfile == [CountdownProfile EXCEPT !.postponeLengthSeconds = 60]

\* The tick and every inbound operation of the break session
NextOperations ==
  \/ NextCountdown
  \/ PostponeDuringBreak

InitOperations == InitIn({OperationsProfile})

SpecOperations == InitOperations /\ [][NextOperations]_vars

\* The engine with ticks in which a collaborator raises
NextFaults ==
  \/ Advance
  \/ Tick(IdleStates)
  \/ TickThrowing
  \/ ResumeSelection
  \/ ResumeCaller
  \/ EndPopupBreak
  \/ BreakPostpone

InitFaults == InitIn({PopupProfile})

SpecFaults == InitFaults /\ [][NextFaults]_vars

\* The break session: the tick with every idle state and any gap between
\* ticks, the manual start, the end and the snooze of a break and the
\* next-message request
NextSession ==
  \/ Advance
  \/ Tick(IdleStates)
  \/ ResumeSelection
  \/ ResumeCaller
  \/ EndPopupBreak
  \/ PostponeDuringBreak
  \/ StartBreakNow
  \/ BreakMessageNext

SpecSession == InitFaults /\ [][NextSession]_vars

\* The engine over minutes: the system sleeps or stalls for one or two
\* periods of 200 seconds between ticks, with an idle-reset length of 300
\* seconds and a break frequency of 6, 8 1/3 or 28 minutes
AwayPeriodSeconds == 200

LockProfiles ==
  {[PopupProfile EXCEPT !.breakFrequencySeconds = frequency,
                        !.breakLengthSeconds = 120,
                        !.postponeLengthSeconds = 180,
                        !.idleResetLengthSeconds = 300,
                        !.idleResetNotification = notification] :
     frequency \in {360, 500, 28 * 60}, notification \in BOOLEAN}

\* No tick runs for one or two periods
Away ==
  /\ pending = <<>>
  /\ \E periods \in 1..2 :
       LET later == now + periods * AwayPeriodSeconds * MsPerSecond
       IN /\ later <= T0 + MaxAwayPeriods * AwayPeriodSeconds * MsPerSecond
          /\ now' = later
  /\ fx' = <<>>
  /\ UNCHANGED <<settings, eng, pending, probe>>

NextLock ==
  \/ Away
  \/ Tick(IdleStates)
  \/ ResumeSelection
  \/ ResumeCaller
  \/ EndPopupBreak

InitLock == InitIn(LockProfiles)

SpecLock == InitLock /\ [][NextLock]_vars

\* The engine with no end of time.  The engine reads its timestamps only
\* through their distance to the clock, and the clock through the working
\* hours, which it stays within here: so a second that passes is modelled by
\* leaving the clock at T0 and moving every timestamp one second into the
\* past.  A timestamp older than MaxAge seconds stays at that age: the
\* intervals the engine compares ages with (the break frequency and the
\* idle-reset length of LiveProfiles) are all shorter.  Breaks stay enabled,
\* the user stays active, a tick follows the previous one after at most the
\* idle-reset length, and a break that is shown is ended or snoozed.
LiveProfiles ==
  {[PopupProfile EXCEPT !.breakFrequencySeconds = p[1],
                        !.idleResetLengthSeconds = p[2],
                        !.notificationType = p[3],
                        !.breakMessages = <<0>>,
                        !.breakMessagesOrder = ArrayOf(<<0>>)] :
     p \in {<<1, 2, "POPUP">>, <<2, 1, "POPUP">>, <<2, 2, "POPUP">>,
            <<1, 1, "NOTIFICATION">>}}

Shift(t, d) ==
  IF t = Null THEN Null ELSE Max(t - d, now - MaxAge * MsPerSecond)

Elapsed(e, d) ==
  [e EXCEPT !.breakTime = Shift(@, d),
            !.idleStart = Shift(@, d),
            !.lockStart = Shift(@, d),
            !.lastTick = Shift(@, d),
            !.lastCompletedBreakTime = Shift(@, d),
            !.currentBreakStartTime = Shift(@, d),
            !.currentBreakEndTimestamp = Shift(@, d)]

\* One second passes without a tick
Elapse ==
  /\ pending = <<>>
  /\ eng.lastTick # Null =>
       (now - eng.lastTick) + TickPeriodMs
         <= getIdleResetSeconds(settings) * MsPerSecond
  /\ eng' = Elapsed(eng, TickPeriodMs)
  /\ fx' = <<>>
  /\ UNCHANGED <<now, settings, pending, probe>>

\* The break that is shown is ended or snoozed
EndOrPostpone == eng.havingBreak /\ (EndPopupBreak \/ PostponeDuringBreak)

NextLive ==
  \/ Elapse
  \/ Tick({"active"})
  \/ ResumeSelection
  \/ ResumeCaller
  \/ EndOrPostpone

InitLive == InitIn(LiveProfiles)

\* The interval timer keeps calling tick, time passes, a suspended call is
\* resumed, and every break that is shown is eventually ended or snoozed
LiveFairness ==
  /\ WF_vars(Elapse)
  /\ WF_vars(Tick({"active"}))
  /\ WF_vars(ResumeSelection)
  /\ WF_vars(ResumeCaller)
  /\ SF_vars(EndOrPostpone)

SpecLive == InitLive /\ [][NextLive]_vars /\ LiveFairness

(***************************************************************************)
(* The pure functions, each applied once to inputs drawn by Init.          *)
(***************************************************************************)
Quiescent ==
  /\ eng = EngineLoaded(T0)
  /\ pending = <<>>
  /\ fx = <<>>

RECURSIVE SeqsUpTo(_, _)
SeqsUpTo(values, n) ==
  IF n = 0 THEN {<<>>}
  ELSE LET shorter == SeqsUpTo(values, n - 1)
       IN shorter \cup {Append(q, v) : q \in {p \in shorter : Len(p) = n - 1},
                                       v \in values}

\* What a stored breakMessagesOrder can hold
OrderCandidates ==
  {NotAnArray} \cup
  {ArrayOf(q) : q \in SeqsUpTo((0 - 1)..MaxPool \cup {NonInteger}, MaxPool)}

InitSan ==
  /\ now = T0
  /\ settings = defaultSettings
  /\ Quiescent
  /\ \E order \in OrderCandidates, length \in 0..MaxPool :
       probe = [kind |-> "sanitize", applied |-> FALSE,
                order |-> order, length |-> length, result |-> None]

Sanitize ==
  /\ probe.kind = "sanitize"
  /\ ~probe.applied
  /\ probe' = [probe EXCEPT !.applied = TRUE,
                            !.result = sanitizeSequentialOrder(probe.order, probe.length)]
  /\ UNCHANGED <<now, settings, eng, pending, fx>>

NextSan == Sanitize

SpecSan == InitSan /\ [][NextSan]_vars

IsPermutationOfIndexes(order, n) ==
  /\ order.isArray
  /\ Len(order.items) = n
  /\ \A i \in 1..Len(order.items) :
       /\ IsInteger(order.items[i])
       /\ order.items[i] >= 0
       /\ order.items[i] < n
  /\ \A i, j \in 1..Len(order.items) :
       i # j => order.items[i] # order.items[j]

\* C8: sanitizeSequentialOrder(candidate, n) is null whenever candidate is
\* not an array of length exactly n or holds a duplicate, a non-integer or a
\* value outside [0, n); otherwise it is a copy with the elements of
\* candidate in the same order, and candidate is as it was.
C8_SanitizeOrder ==
  (probe.kind = "sanitize" /\ probe.applied) =>
    IF IsPermutationOfIndexes(probe.order, probe.length)
    THEN probe.result = Some(probe.order.items)
    ELSE probe.result = None

C8_Witness ==
  /\ probe.kind = "sanitize"
  /\ probe.applied
  /\ probe.length = MaxPool
  /\ probe.result # None
  /\ probe.result[1][1] = MaxPool - 1

(***************************************************************************)
(* checkInWorkingHours over schedules and instants                         *)
(***************************************************************************)
\* Sunday, Monday and Saturday (epoch days 3, 4 and 9)
EpochDays == {3, 4, 9}
MinutesOfDay == {0, 539, 540, 800, 1080, 1081, 1439}
MillisOfMinute == {0, 59999}

Instants ==
  {d * MsPerDay + m * MsPerMinute + ms :
     d \in EpochDays, m \in MinutesOfDay, ms \in MillisOfMinute}

RangeLists ==
  {<<>>,
   <<defaultWorkingRange>>,
   <<[fromMinutes |-> 0, toMinutes |-> 0], [fromMinutes |-> 800, toMinutes |-> 1439]>>,
   <<[fromMinutes |-> 1080, toMinutes |-> 540]>>}

DayConfigs == [enabled : BOOLEAN, ranges : RangeLists]

\* One config for Sunday, Tuesday, Thursday and Saturday, one for the rest
Schedules ==
  {[d \in 0..6 |-> IF d % 2 = 0 THEN even ELSE odd] :
     even \in DayConfigs, odd \in DayConfigs}

InitWH ==
  /\ now \in Instants
  /\ \E enabled \in BOOLEAN, schedule \in Schedules :
       settings = [defaultSettings EXCEPT !.workingHoursEnabled = enabled,
                                          !.workingHours = schedule]
  /\ Quiescent
  /\ probe = [kind |-> "workingHours", applied |-> FALSE, result |-> FALSE]

CheckInWorkingHours ==
  /\ probe.kind = "workingHours"
  /\ ~probe.applied
  /\ probe' = [probe EXCEPT !.applied = TRUE,
                            !.result = checkInWorkingHours(settings)]
  /\ UNCHANGED <<now, settings, eng, pending, fx>>

NextWH == CheckInWorkingHours

SpecWH == InitWH /\ [][NextWH]_vars

\* The weekday (0 = Sunday) and minute of the day of an instant, by the calendar
Weekday(t) == (EpochDayOfWeek + (t \div MsPerDay)) % 7
MinuteOfDay(t) == (t % MsPerDay) \div MsPerMinute

\* C7: checkInWorkingHours is true for every time and schedule when working
\* hours are globally disabled; otherwise false for every time of a weekday
\* whose config is disabled, and for an enabled weekday true exactly when the
\* minute of the day m has fromMinutes <= m <= toMinutes for at least one of
\* that day's ranges.
C7_WorkingHours ==
  (probe.kind = "workingHours" /\ probe.applied) =>
    LET today == settings.workingHours[Weekday(now)]
        m == MinuteOfDay(now)
    IN probe.result =
         IF ~settings.workingHoursEnabled THEN TRUE
         ELSE IF ~today.enabled THEN FALSE
         ELSE \E i \in 1..Len(today.ranges) :
                today.ranges[i].fromMinutes <= m /\ m <= today.ranges[i].toMinutes

\* An enabled day, at the last minute of its range, last millisecond
C7_Witness ==
  /\ probe.kind = "workingHours"
  /\ probe.applied
  /\ settings.workingHoursEnabled
  /\ settings.workingHours[Weekday(now)].enabled
  /\ settings.workingHours[Weekday(now)].ranges = <<defaultWorkingRange>>
  /\ MinuteOfDay(now) = 1080
  /\ now % MsPerMinute = 59999
  /\ probe.result

(***************************************************************************)
(* Sequential rotation: determineNextBreakMessage called again and again,  *)
(* the returned settings persisted after each call.                        *)
(***************************************************************************)
\* A pool of n distinct messages; the message at index i is n - 1 - i
PoolOf(n) == [i \in 1..n |-> n - i]

IndexOfMessage(pool, message) == CHOOSE i \in 0..(Len(pool) - 1) : pool[i + 1] = message

StoredCursors == ((0 - MaxPool - 1)..(2 * MaxPool)) \cup {Undefined}

\* The stored order: not an array, an empty array, and for a pool of up to
\* three messages every sequence of n values of 0..n; for a larger pool every
\* permutation and every sequence of one repeated value.  The order reaches
\* determineNextBreakMessage only through sanitizeSequentialOrder
StoredOrders(n) ==
  {NotAnArray, ArrayOf(<<>>)}
    \cup {ArrayOf(q) : q \in {f \in [1..n -> 0..n] :
             \/ n <= 3
             \/ \A i, j \in 1..n : i # j => f[i] # f[j]
             \/ \A i \in 1..n : f[i] = f[1]}}

\* The stored cursor as an index of [0, n), by the mathematical modulo
ReducedCursor(cursor, n) == IF cursor = Undefined THEN 0 ELSE cursor % n

InitRot ==
  /\ now = T0
  /\ \E n \in 1..MaxPool, cursor \in StoredCursors :
       \E order \in StoredOrders(n) :
         settings = [defaultSettings EXCEPT !.breakMessages = PoolOf(n),
                                            !.breakMessagesMode = "SEQUENTIAL",
                                            !.breakMessagesNextIndex = cursor,
                                            !.breakMessagesOrder = order]
  /\ Quiescent
  /\ probe = [kind |-> "rotation", applied |-> FALSE, calls |-> 0,
              cursorBefore |-> Null, orderBefore |-> NotAnArray, pick |-> Null,
              started |-> FALSE, block |-> <<>>]

SelectNext ==
  /\ probe.kind = "rotation"
  /\ probe.calls < MaxSelections
  /\ \E r \in Randoms(settings) :
       LET result == determineNextBreakMessage(settings, r.rnd1, r.rnd2, r.pick)
           n == Len(settings.breakMessages)
           pick == IndexOfMessage(settings.breakMessages, result.message)
           started == probe.started \/ ReducedCursor(settings.breakMessagesNextIndex, n) = 0
       IN /\ settings' = result.updatedSettings[1]
          /\ probe' = [kind |-> "rotation", applied |-> TRUE,
                       calls |-> probe.calls + 1,
                       cursorBefore |-> settings.breakMessagesNextIndex,
                       orderBefore |-> settings.breakMessagesOrder,
                       pick |-> pick,
                       started |-> started,
                       block |-> IF ~started THEN <<>>
                                 ELSE IF Len(probe.block) = n THEN <<pick>>
                                 ELSE Append(probe.block, pick)]
  /\ UNCHANGED <<now, eng, pending, fx>>

NextRot == SelectNext

SpecRot == InitRot /\ [][NextRot]_vars

\* C9: in sequential mode with a pool of N >= 1 messages and the returned
\* rotation state persisted after each call, the stored cursor is reduced
\* modulo N (also when negative or too large), an invalid stored order is
\* replaced by a permutation, the persisted cursor is always in [0, N), and
\* from the first call with cursor 0 no index is picked twice within a block
\* of N consecutive selections.
C9_SequentialRotation ==
  (probe.kind = "rotation" /\ probe.applied) =>
    LET n == Len(settings.breakMessages)
        reduced == ReducedCursor(probe.cursorBefore, n)
    IN /\ settings.breakMessagesNextIndex \in 0..(n - 1)
       /\ settings.breakMessagesNextIndex = (reduced + 1) % n
       /\ IsPermutationOfIndexes(settings.breakMessagesOrder, n)
       /\ IsPermutationOfIndexes(probe.orderBefore, n) =>
            probe.pick = probe.orderBefore.items[reduced + 1]
       /\ Len(probe.block) <= n
       /\ \A i, j \in 1..Len(probe.block) :
            i # j => probe.block[i] # probe.block[j]
       /\ \A i \in 1..Len(probe.block) : probe.block[i] \in 0..(n - 1)

\* The end of a second full block of the largest pool
C9_Witness ==
  /\ probe.kind = "rotation"
  /\ probe.calls = MaxSelections
  /\ Len(settings.breakMessages) = MaxPool
  /\ Len(probe.block) = MaxPool
  /\ probe.block # <<0, 1, 2>>

(***************************************************************************)
(* Properties of the engine                                                *)
(***************************************************************************)
\* A step in which doBreak is entered: its continuation is left suspended
DoBreakStarted ==
  /\ pending = <<>>
  /\ pending' # <<>>
  /\ pending'[1].kind = "doBreak"
  /\ pending'[1].stage = 1

\* The break windows are created by a step
WindowsCreated(effects) ==
  \E i \in 1..Len(effects) : effects[i].k = "createBreakWindows"

\* The conditions of shouldHaveBreak, with the user active, and a due break
BreakDue ==
  /\ ~eng.havingBreak
  /\ settings.breaksEnabled
  /\ checkInWorkingHours(settings)
  /\ eng.breakTime # Null
  /\ now > eng.breakTime

\* The tick finds no lock, sleep or idle-gap anomaly (lines 712-736)
NoTimingAnomaly ==
  /\ eng.lockStart = Null
  /\ eng.lastTick # Null =>
       /\ now - eng.lastTick <= getBreakSeconds(settings) * MsPerSecond
       /\ settings.idleResetEnabled =>
            now - eng.lastTick <= getIdleResetSeconds(settings) * MsPerSecond

BreakBegun ==
  /\ DoBreakStarted
  /\ eng'.havingBreak
  /\ eng'.currentBreakStartTime = now

NotRestartedWhileActive ==
  /\ eng.havingBreak => ~DoBreakStarted
  /\ WindowsCreated(fx') =>
       /\ pending # <<>>
       /\ pending[1].kind = "doBreak"
       /\ pending[1].stage = 2
       /\ pending' = <<>>
       /\ Len(fx') = 1

C2_OnlyTickStartsBreak ==
  [][/\ DoBreakStarted =>
          /\ ~eng.havingBreak
          /\ settings.breaksEnabled
          /\ checkInWorkingHours(settings)
          /\ \E state \in IdleStates, idleTime \in IdleTimes, r \in Randoms(settings) :
               /\ TickWith(state, idleTime, r)
               /\ ~checkIdle(World, state).idle
     /\ StartBreakNow =>
          /\ ~DoBreakStarted
          /\ eng'.havingBreak = eng.havingBreak
          /\ fx' = <<>>]_vars

\* A tick after a manual start request outside working hours began no break
C2_Witness ==
  /\ eng.startedFromTray
  /\ eng.lastTick = now
  /\ ~eng.havingBreak
  /\ ~checkInWorkingHours(settings)
  /\ settings.breaksEnabled
  /\ pending = <<>>

\* The remaining time of the active break as the renderer is told it: the stored
\* value while paused or not yet counting, end - now floored at 0 while running
RemainingMs ==
  IF eng.breakCountdownPaused \/ eng.currentBreakEndTimestamp = Null
  THEN eng.currentBreakRemainingMs
  ELSE IF eng.currentBreakEndTimestamp - now < 0 THEN 0
       ELSE eng.currentBreakEndTimestamp - now

\* C3: in every reachable state in which a break is active and its countdown
\* fields are set, 0 <= remainingMs <= totalDurationMs, whatever sequence of
\* break starts, countdown starts, pauses, resumes, adjustments and message
\* navigation led there.
C3_RemainingWithinTotal ==
  (eng.havingBreak /\ eng.currentBreakTotalDurationMs # Null
     /\ eng.currentBreakRemainingMs # Null) =>
    /\ 0 <= RemainingMs
    /\ RemainingMs <= eng.currentBreakTotalDurationMs
    /\ 0 <= eng.currentBreakRemainingMs
    /\ eng.currentBreakRemainingMs <= eng.currentBreakTotalDurationMs

\* A paused countdown that has been shortened, part of it elapsed, with a
\* message to go back to
C3_Witness ==
  /\ eng.havingBreak
  /\ eng.breakCountdownPaused
  /\ eng.currentBreakTotalDurationMs = MIN_DURATION_MS
  /\ eng.currentBreakRemainingMs = 0
  /\ eng.breakMessageHistoryIndex > 0

\* What a postpone that takes effect leaves behind
PostponeTookEffect(w) ==
  /\ ~w.e.havingBreak
  /\ w.e.postponedCount = IF eng.idleStart = Null THEN eng.postponedCount + 1 ELSE 0
  /\ w.e.breakTime # Null
  /\ w.e.breakTime > now
  /\ w.e.currentBreakEndTimestamp = Null
  /\ w.e.currentBreakRemainingMs = Null
  /\ w.e.currentBreakTotalDurationMs = Null
  /\ ~w.e.breakCountdownPaused

PostponeRespectsLimit ==
  /\ (settings.postponeLimit > 0 /\ eng.postponedCount >= settings.postponeLimit) =>
       /\ ~getAllowPostpone(World)
       /\ \A action \in PostponeActions : postponeBreak(World, action) = World
  /\ getAllowPostpone(World) =>
       \A action \in PostponeActions :
         PostponeTookEffect(postponeBreak(World, action))

\* C4: when postponeLimit > 0 and postponedCount has reached it,
\* postponeBreak (snoozed or skipped) changes nothing and getAllowPostpone is
\* false; whenever getAllowPostpone is true postponeBreak takes effect; and
\* no step that leaves the limit unchanged takes postponedCount past it.
C4_PostponeLimit ==
  /\ [](PostponeRespectsLimit)
  /\ [][(/\ settings'.postponeLimit = settings.postponeLimit
          /\ settings.postponeLimit > 0
          /\ eng.postponedCount <= settings.postponeLimit)
          => eng'.postponedCount <= settings.postponeLimit]_vars

\* A break is active again after the one postpone the limit allows
C4_Witness ==
  /\ eng.havingBreak
  /\ settings.postponeLimit > 0
  /\ eng.postponedCount = settings.postponeLimit
  /\ eng.currentBreakTotalDurationMs # Null

\* The synchronous completion of a simple-notification break (lines 554-582)
NotificationCompletion ==
  /\ pending # <<>>
  /\ pending[1].kind = "doBreak"
  /\ pending[1].stage = 2
  /\ pending[1].settings.notificationType = "NOTIFICATION"
  /\ eng.havingBreak
  /\ ResumeCaller

\* The first half of C5: postponedCount is 0 after endPopupBreak and after
\* the synchronous completion of a simple-notification break.
CompletionResetsPostponedCount ==
  [][/\ EndPopupBreak => eng'.postponedCount = 0
     /\ NotificationCompletion => eng'.postponedCount = 0]_vars

\* C5: postponedCount is 0 after every normal break completion (endPopupBreak
\* or the synchronous completion of a simple-notification break) and after
\* the postpone limit is reconfigured to 0 through setSettings.
C5_PostponedCountReset ==
  [][/\ EndPopupBreak => eng'.postponedCount = 0
     /\ NotificationCompletion => eng'.postponedCount = 0
     /\ (settings.postponeLimit # 0 /\ settings'.postponeLimit = 0)
          => eng'.postponedCount = 0]_vars

\* C6: scheduleNextBreak always sets breakTime at least one second after
\* now, for a normal schedule and for a postpone: a configured length that
\* is 0, negative or not a finite number is replaced by 1.
C6_ScheduleAtLeastOneSecond ==
  /\ \A isPostpone \in BOOLEAN :
       LET w == scheduleNextBreak(World, isPostpone)
           raw == IF isPostpone THEN settings.postponeLengthSeconds
                  ELSE settings.breakFrequencySeconds
       IN /\ w.e.breakTime >= now + MsPerSecond
          /\ (raw = NaN \/ raw <= 0) => w.e.breakTime = now + MsPerSecond
          /\ (raw # NaN /\ raw > 0) => w.e.breakTime = now + raw * MsPerSecond
  /\ \A seconds \in {0, 0 - 1, 0 - 60, NaN, Undefined} :
       getSecondsFromSettings(seconds) = 1

\* The engine has just scheduled a break with a configured frequency of 0
C6_Witness ==
  /\ settings.breakFrequencySeconds = 0
  /\ settings.breaksEnabled
  /\ eng.breakTime = now + MsPerSecond
  /\ eng.lastTick = now

\* C10: for an active break with a running countdown and remaining time > 0,
\* pauseActiveBreak followed at the same instant by resumeActiveBreak leaves
\* the remaining time and the total duration unchanged, and the new end
\* timestamp is now + the remaining time captured by the pause.
C10_PauseResumeRoundTrip ==
  (/\ eng.havingBreak
   /\ ~eng.breakCountdownPaused
   /\ eng.currentBreakEndTimestamp # Null
   /\ eng.currentBreakEndTimestamp - now > 0) =>
    LET paused == pauseActiveBreak(World)
        resumed == resumeActiveBreak([World EXCEPT !.e = paused.e])
    IN /\ paused.e.breakCountdownPaused
       /\ paused.e.currentBreakRemainingMs = eng.currentBreakEndTimestamp - now
       /\ ~resumed.e.breakCountdownPaused
       /\ resumed.e.currentBreakRemainingMs = eng.currentBreakEndTimestamp - now
       /\ resumed.e.currentBreakTotalDurationMs = eng.currentBreakTotalDurationMs
       /\ resumed.e.currentBreakEndTimestamp = now + paused.e.currentBreakRemainingMs
       /\ resumed.e.currentBreakEndTimestamp = eng.currentBreakEndTimestamp
       /\ resumed.ret = Some([breakEndTime |-> now + paused.ret[1].remainingMs,
                              totalDurationMs |-> paused.ret[1].totalDurationMs])

\* A countdown resumed half way: it runs again towards now + the remaining
\* second of its two
C10_Witness ==
  /\ eng.havingBreak
  /\ ~eng.breakCountdownPaused
  /\ eng.currentBreakTotalDurationMs = 2 * MsPerSecond
  /\ eng.currentBreakRemainingMs = MsPerSecond
  /\ eng.currentBreakEndTimestamp = now + MsPerSecond
  /\ fx = <<Fx("BreakStart", now + MsPerSecond, 2 * MsPerSecond)>>

(***************************************************************************)
(* Repeated pause and resume (SpecCountdown), duration adjustment           *)
(* (SpecAdjust)                                                            *)
(***************************************************************************)
\* C11: pausing a break that is already paused returns the stored remaining
\* time and total and changes no engine state, however much time has passed
\* since the first pause; resuming a break whose countdown is already running
\* leaves the end timestamp, the remaining time and the paused flag (indeed
\* the whole engine state) unchanged and returns that end timestamp.
C11_PauseResumeIdempotent ==
  /\ (eng.havingBreak /\ eng.breakCountdownPaused) =>
       LET again == pauseActiveBreak(World)
       IN /\ again.e = eng
          /\ again.ret = Some([remainingMs |-> eng.currentBreakRemainingMs,
                               totalDurationMs |-> eng.currentBreakTotalDurationMs])
          /\ eng.currentBreakRemainingMs # Null
  /\ (eng.havingBreak /\ ~eng.breakCountdownPaused
        /\ eng.currentBreakEndTimestamp # Null) =>
       LET again == resumeActiveBreak(World)
       IN /\ again.e.currentBreakEndTimestamp = eng.currentBreakEndTimestamp
          /\ again.e.currentBreakRemainingMs = eng.currentBreakRemainingMs
          /\ again.e.breakCountdownPaused = eng.breakCountdownPaused
          /\ again.e = eng
          /\ again.ret = Some([breakEndTime |-> eng.currentBreakEndTimestamp,
                               totalDurationMs |-> eng.currentBreakTotalDurationMs])

\* A countdown of two seconds that is running with its end one second ahead
\* while the stored remaining time still says two: a second has passed since
\* it was armed, and resume has just been answered
C11_Witness ==
  /\ eng.havingBreak
  /\ ~eng.breakCountdownPaused
  /\ eng.currentBreakTotalDurationMs = 2 * MsPerSecond
  /\ eng.currentBreakRemainingMs = 2 * MsPerSecond
  /\ eng.currentBreakEndTimestamp = now + MsPerSecond
  /\ fx = <<Fx("BreakStart", now + MsPerSecond, 2 * MsPerSecond)>>

\* C12: for an active break with its countdown fields set, a delta that
\* takes the remaining time to 0 or below sets the remaining time to exactly
\* 0, leaves the engine not paused with end timestamp = now, whether the
\* break was paused or running, and answers with the break-started channel
\* carrying that end time.
C12_AdjustToZeroCompletes ==
  \A d \in DeltaCases :
    (/\ eng.havingBreak
     /\ eng.currentBreakTotalDurationMs # Null
     /\ eng.currentBreakRemainingMs # Null
     /\ d.ms # Undefined /\ d.ms # NaN
     /\ d.ms + (IF d.tenths >= 5 THEN 1 ELSE 0) # 0
     /\ RemainingMs + d.ms + (IF d.tenths >= 5 THEN 1 ELSE 0) <= 0) =>
      LET r == adjustActiveBreakDuration(World, d)
      IN /\ r.e.currentBreakRemainingMs = 0
         /\ ~r.e.breakCountdownPaused
         /\ r.e.currentBreakEndTimestamp = now
         /\ r.e.havingBreak
         /\ r.ret # None
         /\ r.ret[1].channel = "BreakStart"
         /\ r.ret[1].a = now
         /\ r.ret[1].totalDurationMs = r.e.currentBreakTotalDurationMs

\* A break shortened to nothing at the instant it started: the end timestamp
\* is now and was announced on the break-started channel
C12_Witness ==
  /\ eng.havingBreak
  /\ eng.currentBreakStartTime = now
  /\ ~eng.breakCountdownPaused
  /\ eng.currentBreakRemainingMs = 0
  /\ eng.currentBreakEndTimestamp = now
  /\ fx = <<Fx("BreakStart", now, eng.currentBreakTotalDurationMs)>>

\* C13: for an active break with its countdown fields set and a delta d, if d
\* is a finite number that rounds to a non-zero integer n, the adjustment sets
\* the total duration to max(1000, total + n) and the remaining time to
\* (remaining + n) clamped into [0, new total]; otherwise (d not a number, not
\* finite, or rounding to 0) it changes no state, emits nothing and returns
\* nothing.  The total duration of an active break is never below 1000 ms.
C13_AdjustDuration ==
  /\ (eng.havingBreak /\ eng.currentBreakTotalDurationMs # Null) =>
       eng.currentBreakTotalDurationMs >= 1000
  /\ \A d \in DeltaCases :
       (/\ eng.havingBreak
        /\ eng.currentBreakTotalDurationMs # Null
        /\ eng.currentBreakRemainingMs # Null) =>
         LET r == adjustActiveBreakDuration(World, d)
             n == d.ms + (IF d.tenths >= 5 THEN 1 ELSE 0)
             newTotal == IF eng.currentBreakTotalDurationMs + n >= 1000
                         THEN eng.currentBreakTotalDurationMs + n ELSE 1000
         IN IF d.ms # Undefined /\ d.ms # NaN /\ n # 0
            THEN /\ r.e.currentBreakTotalDurationMs = newTotal
                 /\ r.e.currentBreakRemainingMs =
                      (IF RemainingMs + n < 0 THEN 0
                       ELSE IF RemainingMs + n > newTotal THEN newTotal
                            ELSE RemainingMs + n)
                 /\ r.ret # None
            ELSE /\ r.e = eng
                 /\ r.fx = <<>>
                 /\ r.ret = None

\* A paused two-second break cut to the one-second floor with a second left
C13_Witness ==
  /\ eng.havingBreak
  /\ eng.breakCountdownPaused
  /\ eng.currentBreakTotalDurationMs = MIN_DURATION_MS
  /\ eng.currentBreakRemainingMs = MsPerSecond
  /\ fx = <<Fx("BreakPause", MsPerSecond, MIN_DURATION_MS)>>

(***************************************************************************)
(* The end of a break (Spec)                                               *)
(***************************************************************************)
\* The countdown fields, the paused flag and the message history are cleared
BookkeepingCleared(e) ==
  /\ e.currentBreakEndTimestamp = Null
  /\ e.currentBreakRemainingMs = Null
  /\ e.currentBreakTotalDurationMs = Null
  /\ ~e.breakCountdownPaused
  /\ e.breakMessageHistory = <<>>
  /\ e.breakMessageHistoryIndex = 0 - 1

\* C18: when doBreak finishes for a break whose settings say simple
\* notification, the notification has been shown, the break is not active, no
\* countdown state or message history remains, createBreakWindows was not
\* called and a break is scheduled after now; the step is the continuation of
\* doBreak itself (no request in between) and does not depend on
\* postponedCount or on the postpone limit.
C18_NotificationCompletesAtOnce ==
  [][NotificationCompletion =>
       /\ ~eng'.havingBreak
       /\ BookkeepingCleared(eng')
       /\ ~WindowsCreated(fx')
       /\ fx' # <<>>
       /\ fx'[1].k = "Time for a break!"
       /\ eng'.breakTime # Null
       /\ eng'.breakTime > now
       /\ pending' = <<>>]_vars

\* A notification break that has just completed: the notification is out,
\* nothing of the break remains and the next break is scheduled
C18_Witness ==
  /\ fx # <<>>
  /\ fx[1].k = "Time for a break!"
  /\ ~eng.havingBreak
  /\ BookkeepingCleared(eng)
  /\ eng.breakTime > now
  /\ eng.lastCompletedBreakTime = now
  /\ eng.postponedCount = 0
  /\ pending = <<>>

\* C19: in every reachable state, endPopupBreak applied twice at the same
\* instant leaves the engine state that one application leaves: the break
\* inactive, the countdown fields, paused flag and message history cleared,
\* postponedCount 0 and the same breakTime; it is defined whether or not a
\* break is active.
C19_EndBreakIdempotent ==
  LET once == endPopupBreak(World)
      twice == endPopupBreak([World EXCEPT !.e = once.e])
  IN /\ twice.e = once.e
     /\ twice.e.breakTime = once.e.breakTime
     /\ ~once.e.havingBreak
     /\ BookkeepingCleared(once.e)
     /\ once.e.postponedCount = 0
     /\ once.e.breakTime # Null
     /\ twice.fx = <<>>

\* An active popup break, started after an earlier postpone, whose scheduled
\* time has passed: endPopupBreak has everything to clear and a break to
\* schedule
C19_Witness ==
  /\ eng.havingBreak
  /\ pending = <<>>
  /\ eng.postponedCount > 0
  /\ eng.breakMessageHistory # <<>>
  /\ eng.currentBreakTotalDurationMs # Null
  /\ eng.breakTime # Null
  /\ eng.breakTime <= now

\* C20: endPopupBreak sets breakTime to now + the break frequency (1 second
\* for a frequency that is not a positive finite number) when breakTime is
\* absent or not later than now, and leaves a breakTime that is later than now
\* unchanged.
C20_EndBreakKeepsFutureSchedule ==
  LET r == endPopupBreak(World)
      frequency == settings.breakFrequencySeconds
      seconds == IF frequency # NaN /\ frequency > 0 THEN frequency ELSE 1
  IN IF eng.breakTime = Null \/ eng.breakTime <= now
     THEN r.e.breakTime = now + seconds * MsPerSecond
     ELSE r.e.breakTime = eng.breakTime

\* A break has just been snoozed: it is no longer active and the postponed
\* break lies ahead, at a time other than now + the break frequency
C20_Witness ==
  /\ ~eng.havingBreak
  /\ pending = <<>>
  /\ eng.postponedCount > 0
  /\ eng.hasSkippedOrSnoozedSinceLastBreak
  /\ eng.breakTime # Null
  /\ eng.breakTime > now
  /\ eng.breakTime # now + getBreakSeconds(settings) * MsPerSecond
  /\ eng.currentBreakStartTime # Null

(***************************************************************************)
(* Errors raised inside a tick (SpecFaults)                                *)
(***************************************************************************)
\* C14: no error raised inside a tick (by the settings read, the idle query,
\* the anomaly detection, the scheduling or the break start) leaves the
\* engine: no step ends with a rejection that nothing has caught, and the
\* interval timer stays set.
C14_TickErrorsCaught ==
  /\ ~Rejected(fx)
  /\ eng.tickInterval

\* C15: every tick, whether it returns early after clearing the schedule,
\* returns early after scheduling, runs to its end or is ended by an error,
\* leaves lastTick equal to the time at which it ran.
C15_LastTickAlwaysUpdated ==
  [][(Tick(IdleStates) \/ TickThrowing) => eng'.lastTick = now]_vars

\* A tick that found an idle user has just been ended by the idle-time query
\* raising: the schedule it was about to clear is still there and lastTick is
\* the time of the tick
C15_Witness ==
  /\ Rejected(fx)
  /\ fx[Len(fx)].a = "getSystemIdleTime"
  /\ eng.lastTick = now
  /\ eng.breakTime # Null
  /\ now > T0

(***************************************************************************)
(* Mutual exclusion of the handlers (SpecOperations)                       *)
(***************************************************************************)
\* A tick or an inbound operation starts
OperationStarts ==
  \/ Tick({"active"})
  \/ EndPopupBreak
  \/ PostponeDuringBreak
  \/ BreakStart
  \/ BreakPause
  \/ BreakResume
  \/ BreakAdjustDuration
  \/ BreakMessageNext
  \/ BreakMessagePrevious

IntervalSeconds(raw) == IF raw # NaN /\ raw # Undefined /\ raw > 0 THEN raw ELSE 1

\* What every accepted postpone leaves behind, the postpone count apart
PostponeReschedules(r, action) ==
  /\ ~r.e.havingBreak
  /\ BookkeepingCleared(r.e)
  /\ r.e.breakTime =
       now + IntervalSeconds(IF action = "snoozed"
                             THEN settings.postponeLengthSeconds
                             ELSE settings.breakFrequencySeconds) * MsPerSecond
  /\ r.e.breakTime >= now + MsPerSecond

\* C21: a postponeBreak that the limit accepts increments postponedCount by
\* exactly 1, makes the break inactive, clears the countdown fields, the
\* paused flag and the message history, and sets breakTime to now + the
\* postpone length for "snoozed" and to now + the break frequency for
\* "skipped", each interval at least 1 second.
C21_PostponeAccepted ==
  (pending = <<>> /\ getAllowPostpone(World)) =>
    \A action \in PostponeActions :
      LET r == postponeBreak(World, action)
      IN /\ r.e.postponedCount = eng.postponedCount + 1
         /\ PostponeReschedules(r, action)

(***************************************************************************)
(* Message navigation (SpecHistory)                                        *)
(***************************************************************************)
\* The rotation state of the stored settings
RotationState(s) ==
  <<s.breakMessagesNextIndex, s.breakMessagesOrder, s.breakMessages>>

\* skipCurrentBreakMessage run to its end from the current state: the call
\* and, when it suspends, its two continuations
AdvanceCompleted(r, saveOk) ==
  LET w0 == skipCurrentBreakMessage(World, r)
  IN IF w0.spawn = <<>> THEN w0
     ELSE LET p == w0.spawn[1]
              w1 == updateCurrentBreakMessageFromSettings(
                      [w0 EXCEPT !.spawn = <<>>], p, saveOk)
          IN skipResumed(w1, p)

\* The history cursor is at the last entry of the history
CursorAtEnd(e) == e.breakMessageHistoryIndex = Len(e.breakMessageHistory) - 1

\* C22: during a break, skipCurrentBreakMessage asks
\* determineNextBreakMessage for a message exactly when the history cursor is
\* at the last entry, and then one entry (that message) is appended and the
\* cursor moves to it; when the user has gone back, it moves the cursor one
\* entry forward and shows the stored entry, and the history, its length and
\* the rotation state stay as they were, so that goToPreviousBreakMessage
\* followed by skipCurrentBreakMessage ends on the same message and cursor.
C22_AdvanceReplaysBeforeSelecting ==
  (eng.havingBreak /\ pending = <<>>) =>
    \A r \in Randoms(settings), saveOk \in BOOLEAN :
      LET history == eng.breakMessageHistory
          cursor == eng.breakMessageHistoryIndex
          w0 == skipCurrentBreakMessage(World, r)
          done == AdvanceCompleted(r, saveOk)
          back == goToPreviousBreakMessage(World)
          forth == skipCurrentBreakMessage(
                     [World EXCEPT !.e = back.e, !.s = back.s], r)
      IN /\ (w0.spawn # <<>>) <=> CursorAtEnd(eng)
         /\ CursorAtEnd(eng) =>
              /\ Len(done.e.breakMessageHistory) = Len(history) + 1
              /\ SubSeq(done.e.breakMessageHistory, 1, Len(history)) = history
              /\ done.e.breakMessageHistoryIndex = Len(history)
              /\ done.e.breakMessageHistory[Len(history) + 1].message =
                   w0.spawn[1].message
              /\ done.e.currentBreakMessage = w0.spawn[1].message
         /\ ~CursorAtEnd(eng) =>
              /\ done.e.breakMessageHistory = history
              /\ done.e.breakMessageHistoryIndex = cursor + 1
              /\ done.e.currentBreakMessage = history[cursor + 2].message
              /\ RotationState(done.s) = RotationState(settings)
         /\ cursor > 0 =>
              /\ back.e.breakMessageHistoryIndex = cursor - 1
              /\ forth.spawn = <<>>
              /\ forth.e.breakMessageHistoryIndex = cursor
              /\ forth.e.currentBreakMessage = eng.currentBreakMessage
              /\ forth.e.breakMessageHistory = history
              /\ RotationState(forth.s) = RotationState(settings)

\* The user has gone back to the first of two messages of the break, the
\* second one being a different message
C22_Witness ==
  /\ eng.havingBreak
  /\ pending = <<>>
  /\ Len(eng.breakMessageHistory) = 2
  /\ eng.breakMessageHistoryIndex = 0
  /\ eng.breakMessageHistory[1].message # eng.breakMessageHistory[2].message
  /\ eng.currentBreakMessage = eng.breakMessageHistory[1].message

\* C23: goToPreviousBreakMessage never changes the history or the stored
\* settings (the rotation state among them); with a break active and the
\* cursor past the first entry it moves the cursor back by exactly one entry
\* and shows that entry; with the cursor at the first entry, or with no break
\* active, it changes nothing (cursor, current message, countdown fields) and
\* broadcasts nothing.
C23_RewindMovesBackOne ==
  pending = <<>> =>
    LET cursor == eng.breakMessageHistoryIndex
        r == goToPreviousBreakMessage(World)
    IN /\ r.e.breakMessageHistory = eng.breakMessageHistory
       /\ r.s = settings
       /\ r.spawn = <<>>
       /\ (eng.havingBreak /\ cursor > 0) =>
            /\ r.e.breakMessageHistoryIndex = cursor - 1
            /\ r.e.currentBreakMessage = eng.breakMessageHistory[cursor].message
            /\ r.fx # <<>>
       /\ (~eng.havingBreak \/ cursor <= 0) =>
            /\ r.e = eng
            /\ r.fx = <<>>

\* The user has just gone back from the second message of the break to the
\* first one, which is shown again: there is no entry before it
C23_Witness ==
  /\ eng.havingBreak
  /\ pending = <<>>
  /\ Len(eng.breakMessageHistory) = 2
  /\ eng.breakMessageHistoryIndex = 0
  /\ Len(fx) = 2
  /\ fx[2].k = "BreakMessageUpdate"
  /\ fx[2].a = eng.breakMessageHistory[1].message

(***************************************************************************)
(* Requests that arrive while no break is active (SpecOperations)          *)
(***************************************************************************)
\* A handler has changed nothing and sent nothing
NothingDone(w) ==
  /\ w.e = eng
  /\ w.s = settings
  /\ w.fx = <<>>
  /\ w.spawn = <<>>

\* C24: with no break active, the requests to start the countdown, to pause,
\* to resume, to adjust the duration, for the next and for the previous
\* message change nothing of the engine state or the stored settings, send
\* nothing and suspend nothing; the first four return null, the last two the
\* unchanged current message.
C24_NoBreakNoOp ==
  (~eng.havingBreak /\ pending = <<>>) =>
    /\ NothingDone(BreakStartHandler(World))
    /\ BreakStartHandler(World).ret = None
    /\ NothingDone(BreakPauseHandler(World))
    /\ BreakPauseHandler(World).ret = None
    /\ NothingDone(BreakResumeHandler(World))
    /\ BreakResumeHandler(World).ret = None
    /\ \A deltaMs \in DeltaCases :
         /\ NothingDone(BreakAdjustDurationHandler(World, deltaMs))
         /\ BreakAdjustDurationHandler(World, deltaMs).ret = None
    /\ \A r \in Randoms(settings) :
         /\ NothingDone(skipCurrentBreakMessage(World, r))
         /\ skipCurrentBreakMessage(World, r).ret # None
         /\ skipCurrentBreakMessage(World, r).ret[1].message = eng.currentBreakMessage
    /\ NothingDone(goToPreviousBreakMessage(World))
    /\ goToPreviousBreakMessage(World).ret # None
    /\ goToPreviousBreakMessage(World).ret[1].message = eng.currentBreakMessage

\* A break has been snoozed: no break is active, its message is still the
\* current message and the postponed break lies ahead
C24_Witness ==
  /\ ~eng.havingBreak
  /\ pending = <<>>
  /\ fx = <<>>
  /\ eng.currentBreakMessage # Null
  /\ eng.postponedCount > 0
  /\ eng.breakTime # Null
  /\ BookkeepingCleared(eng)

(***************************************************************************)
(* The save of the rotation state (SpecCountdown)                          *)
(***************************************************************************)
\* The caller of a suspended selection, resumed
ResumeCallerOf(w, p) ==
  IF p.kind = "doBreak" THEN doBreakResumed(w, p) ELSE skipResumed(w, p)

\* C25: when setSettings fails while updateCurrentBreakMessageFromSettings
\* saves the rotation state, for doBreak and for skipCurrentBreakMessage, the
\* selected message is the current message all the same, nothing is raised,
\* and the caller goes on as after a successful save: the break is active,
\* the message is recorded as the last history entry with the cursor on it,
\* and the countdown fields hold the duration of the message.
C25_SaveFailureSwallowed ==
  (pending # <<>> /\ pending[1].stage = 1 /\ pending[1].updatedSettings # None) =>
    LET p == pending[1]
        failed == updateCurrentBreakMessageFromSettings(World, p, FALSE)
        saved == updateCurrentBreakMessageFromSettings(World, p, TRUE)
        afterFailed == ResumeCallerOf(failed, p)
        afterSaved == ResumeCallerOf(saved, p)
        history == afterFailed.e.breakMessageHistory
    IN /\ failed.e.currentBreakMessage = p.message
       /\ failed.s = settings
       /\ ~Rejected(failed.fx)
       /\ ~Rejected(afterFailed.fx)
       /\ afterFailed.e = afterSaved.e
       /\ afterFailed.fx = afterSaved.fx
       /\ afterFailed.ret = afterSaved.ret
       /\ afterFailed.e.havingBreak
       /\ afterFailed.e.currentBreakMessage = p.message
       /\ history # <<>>
       /\ history[Len(history)].message = p.message
       /\ afterFailed.e.breakMessageHistoryIndex = Len(history) - 1
       /\ afterFailed.e.currentBreakTotalDurationMs =
            resolveMessageDurationMs(settings, p.message)
       /\ afterFailed.e.currentBreakRemainingMs =
            afterFailed.e.currentBreakTotalDurationMs
       /\ p.kind = "skip" =>
            /\ afterFailed.ret # None
            /\ afterFailed.ret[1].message = p.message

\* The save of the rotation state has just failed: the stored settings are
\* not the ones that were to be saved, and the selected message is current
C25_Witness ==
  /\ pending # <<>>
  /\ pending[1].stage = 2
  /\ pending[1].updatedSettings # None
  /\ settings # pending[1].updatedSettings[1]
  /\ eng.currentBreakMessage = pending[1].message

TickCanRun ==
  /\ pending = <<>>
  /\ eng.tickInterval
  /\ eng.lastTick = Null \/ now > eng.lastTick

\* The lock has lasted longer than the break frequency
LockedThroughFrequency(e) ==
  /\ e.lockStart # Null
  /\ now - e.lockStart >
       IntervalSeconds(settings.breakFrequencySeconds) * MsPerSecond

\* The time since the last tick exceeds the break frequency
SleptThroughFrequency(e) ==
  /\ e.lastTick # Null
  /\ now - e.lastTick >
       IntervalSeconds(settings.breakFrequencySeconds) * MsPerSecond

\* The time since the last tick exceeds the idle-reset length
IdleGap(e) ==
  /\ settings.idleResetEnabled
  /\ e.lastTick # Null
  /\ now - e.lastTick >
       IntervalSeconds(settings.idleResetLengthSeconds) * MsPerSecond

\* The engine as the anomaly step of a tick finds it, for an idle state of
\* the system: after checkShouldHaveBreak (line 699)
BeforeAnomalies(state) == checkShouldHaveBreak(World, state).w

\* C27: of the three anomalies of a tick at most one takes effect, in the
\* order lock, sleep, idle gap.  When the lock has lasted longer than the
\* break frequency the anomaly step only clears idleStart and lockStart
\* (nothing shown, breakTime untouched), whatever the time since the last
\* tick; otherwise, when the time since the last tick exceeds the break
\* frequency, it only clears lockStart and breakTime; otherwise, when that
\* time exceeds the idle-reset length, it reschedules; otherwise it does
\* nothing.
C27_AnomaliesInPriorityOrder ==
  TickCanRun =>
    \A state \in IdleStates :
      LET before == BeforeAnomalies(state)
          after == tickAnomalies(before, settings)
          frequencyMs ==
            IntervalSeconds(settings.breakFrequencySeconds) * MsPerSecond
      IN IF LockedThroughFrequency(before.e)
         THEN after = [before EXCEPT !.e.idleStart = Null, !.e.lockStart = Null]
         ELSE IF SleptThroughFrequency(before.e)
              THEN after = [before EXCEPT !.e.lockStart = Null, !.e.breakTime = Null]
              ELSE IF IdleGap(before.e)
                   THEN /\ after.e.breakTime = now + frequencyMs
                        /\ after.e.idleStart = Null
                        /\ after.e.postponedCount = 0
                   ELSE after = before

\* The system is locked, the lock has lasted longer than the break frequency
\* and so has the time since the last tick, with an idle period open and a
\* break scheduled: all three anomalies hold at once
C27_Witness ==
  /\ TickCanRun
  /\ LockedThroughFrequency(eng)
  /\ SleptThroughFrequency(eng)
  /\ IdleGap(eng)
  /\ eng.idleStart # Null
  /\ eng.breakTime # Null

(***************************************************************************)
(* A locked system after a gap of 400 seconds (SpecLock)                   *)
(***************************************************************************)
\* The idle notification is among the effects
IdleNotified(effects) ==
  \E i \in 1..Len(effects) : effects[i].k = "Break automatically detected"

\* A tick that finds the system locked 400 seconds after the previous tick,
\* with an idle-reset length of 300 seconds
LockedTickAfterGap(idleTime, r) ==
  /\ settings.idleResetEnabled
  /\ settings.idleResetLengthSeconds = 300
  /\ eng.lastTick # Null
  /\ now - eng.lastTick = 400 * MsPerSecond
  /\ TickWith("locked", idleTime, r)

\* C28 as stated: with an idle-reset length of 300 s, a tick that finds 400 s
\* since the previous tick while the system is reported locked ends with
\* lockStart cleared and idleStart cleared, and shows no idle notification.
C28_AsStated ==
  [][\A idleTime \in IdleTimes, r \in Randoms(settings) :
       LockedTickAfterGap(idleTime, r) =>
         /\ eng'.lockStart = Null
         /\ eng'.idleStart = Null
         /\ ~IdleNotified(fx')]_vars

\* C28 amended: the same tick, when the lock has lasted longer than the break
\* frequency, ends with idleStart cleared and shows no idle notification; its
\* anomaly step has cleared lockStart, and lockStart is still cleared at the
\* end of the tick unless a break was scheduled and none active, in which
\* case the tick has started a new lock period at its own time.
C28_LockedThroughFrequency ==
  [][\A idleTime \in IdleTimes, r \in Randoms(settings) :
       (LockedThroughFrequency(eng) /\ LockedTickAfterGap(idleTime, r)) =>
         /\ eng'.idleStart = Null
         /\ ~IdleNotified(fx')
         /\ tickAnomalies(BeforeAnomalies("locked"), settings).e.lockStart = Null
         /\ eng'.lockStart = IF ~eng.havingBreak /\ eng.breakTime # Null
                             THEN now ELSE Null]_vars

\* The system has been locked for longer than the break frequency, 400
\* seconds have passed since the last tick, an idle period is open and no
\* break is active: the tick that runs now is the one the claim is about
C28_Witness ==
  /\ TickCanRun
  /\ settings.idleResetLengthSeconds = 300
  /\ eng.lastTick # Null
  /\ now - eng.lastTick = 400 * MsPerSecond
  /\ LockedThroughFrequency(eng)
  /\ eng.idleStart # Null
  /\ ~eng.havingBreak

(***************************************************************************)
(* A tick after a sleep (SpecSession)                                      *)
(***************************************************************************)
\* A tick that finds more time since the previous tick than the break
\* frequency, the lock anomaly not applying
TickAfterSleep(state, idleTime, r) ==
  /\ SleptThroughFrequency(eng)
  /\ ~LockedThroughFrequency(BeforeAnomalies(state).e)
  /\ TickWith(state, idleTime, r)

\* What the tick after a sleep does to the schedule: no break begins, and a
\* break is scheduled a full frequency ahead exactly when one should be
\* possible
ScheduleRestarted(state) ==
  /\ eng'.lockStart = Null
  /\ pending' = <<>>
  /\ ~eng'.havingBreak => ~WindowsCreated(fx')
  /\ eng'.breakTime =
       IF checkShouldHaveBreak(World, state).should
       THEN now + IntervalSeconds(settings.breakFrequencySeconds) * MsPerSecond
       ELSE Null

\* C29: a tick that finds the time since the previous tick above the break
\* frequency, the lock anomaly not applying, clears lockStart, discards the
\* scheduled break and shows no idle notification; no break begins in that
\* tick, and when a break should be possible the tick schedules one a full
\* frequency ahead.
C29_SleepDiscardsSchedule ==
  [][\A state \in IdleStates, idleTime \in IdleTimes, r \in Randoms(settings) :
       TickAfterSleep(state, idleTime, r) =>
         /\ ScheduleRestarted(state)
         /\ ~IdleNotified(fx')]_vars

(***************************************************************************)
(* A tick after a gap longer than the idle-reset length (SpecSession)      *)
(***************************************************************************)
\* The idle notification with an away time of seconds is among the effects
IdleNotifiedFor(effects, seconds) ==
  \E i \in 1..Len(effects) :
    /\ effects[i].k = "Break automatically detected"
    /\ effects[i].a = seconds

\* What a tick in the given idle state does with an idle gap: the idle period
\* runs from the previous tick, or from its earlier start when one is open;
\* the anomaly step schedules the next break a full frequency ahead, closes
\* the idle period and resets the postpone count, and the notification, when
\* it is switched on, shows the time since the start of the idle period
IdleGapCountsAsBreak(state) ==
  LET before == BeforeAnomalies(state)
      after == tickAnomalies(before, settings)
      anchor == IF before.e.idleStart = Null THEN before.e.lastTick
                ELSE before.e.idleStart
      frequencyMs ==
        IntervalSeconds(settings.breakFrequencySeconds) * MsPerSecond
  IN /\ after.e.breakTime = now + frequencyMs
     /\ after.e.idleStart = Null
     /\ after.e.postponedCount = 0
     /\ after.e.lastCompletedBreakTime = now
     /\ Len(after.fx) = Len(before.fx) + (IF settings.idleResetNotification THEN 1 ELSE 0)
     /\ settings.idleResetNotification =>
          IdleNotifiedFor(after.fx, RoundToSeconds(now - anchor))
     /\ \A idleTime \in IdleTimes, r \in Randoms(settings) :
          LET whole == tick(World, state, idleTime, r)
          IN /\ whole.e.postponedCount = 0
             /\ whole.e.breakTime =
                  IF checkShouldHaveBreak(World, state).should \/ eng.havingBreak
                  THEN now + frequencyMs
                  ELSE Null
             /\ settings.idleResetNotification =>
                  IdleNotifiedFor(whole.fx, RoundToSeconds(now - anchor))

\* C30 as stated: a tick that finds the time since the previous tick above
\* the idle-reset length but not above the break frequency opens an idle
\* period at the previous tick if none is open, keeps an open one, and
\* reschedules in that tick with the postpone count reset to 0.
C30_AsStated ==
  TickCanRun =>
    \A state \in IdleStates :
      (IdleGap(eng) /\ ~SleptThroughFrequency(eng)) => IdleGapCountsAsBreak(state)

\* C30: the same, when the lock has not lasted longer than the break
\* frequency.
C30_IdleGapCountsAsBreak ==
  TickCanRun =>
    \A state \in IdleStates :
      (/\ IdleGap(eng)
       /\ ~SleptThroughFrequency(eng)
       /\ ~LockedThroughFrequency(BeforeAnomalies(state).e))
        => IdleGapCountsAsBreak(state)

\* An idle gap with no idle period open and one break postponed
C30_Witness ==
  /\ TickCanRun
  /\ IdleGap(eng)
  /\ ~SleptThroughFrequency(eng)
  /\ ~LockedThroughFrequency(eng)
  /\ eng.idleStart = Null
  /\ eng.postponedCount > 0

\* An idle gap with an idle period open since before the previous tick
C30_WitnessOpen ==
  /\ TickCanRun
  /\ IdleGap(eng)
  /\ ~SleptThroughFrequency(eng)
  /\ ~LockedThroughFrequency(eng)
  /\ eng.idleStart # Null
  /\ eng.idleStart < eng.lastTick

(***************************************************************************)
(* A tick while no break should fire (Spec)                                *)
(***************************************************************************)
\* The engine as step 4 of a tick finds it: after the anomaly step
BeforeStepFour(state) == tickAnomalies(BeforeAnomalies(state), settings)

\* The idle check of step 4 finds the user idle: idle detection is on and
\* the system is idle, or locked for longer than the idle-reset length
UserIdle(e, state) ==
  /\ settings.idleResetEnabled
  /\ \/ state = "idle"
     \/ /\ state = "locked"
        /\ e.lockStart # Null
        /\ RoundToSeconds(now - e.lockStart) >
             IntervalSeconds(settings.idleResetLengthSeconds)

\* C31: in a tick where no break should fire, no break is active and a
\* break is scheduled when the tick comes to step 4, the tick clears the
\* schedule and does nothing further (nothing shown, no break begun, no
\* other field touched but lastTick and the lock start of the idle check);
\* when the user is idle at that moment idleStart becomes now minus the idle
\* time the system reports, otherwise idleStart stays as it was.
C31_AwayTickClearsSchedule ==
  TickCanRun =>
    \A state \in IdleStates, idleTime \in IdleTimes, r \in Randoms(settings) :
      LET found == BeforeStepFour(state)
          after == tick(World, state, idleTime, r)
      IN (/\ ~checkShouldHaveBreak(World, state).should
          /\ ~found.e.havingBreak
          /\ found.e.breakTime # Null)
         => /\ after.e.breakTime = Null
            /\ after.spawn = <<>>
            /\ after.fx = found.fx
            /\ after.e.idleStart =
                 IF UserIdle(found.e, state)
                 THEN now - idleTime * MsPerSecond
                 ELSE found.e.idleStart
            /\ [after.e EXCEPT !.lockStart = Null] =
                 [found.e EXCEPT !.breakTime = Null,
                                 !.idleStart = after.e.idleStart,
                                 !.lockStart = Null,
                                 !.lastTick = now]

\* A tick can run with a break scheduled, none active, the system idle and
\* an idle period not yet open
C31_Witness ==
  /\ TickCanRun
  /\ ~eng.havingBreak
  /\ eng.breakTime # Null
  /\ eng.idleStart = Null
  /\ settings.idleResetEnabled
  /\ ~SleptThroughFrequency(eng)
  /\ BeforeStepFour("idle").e.breakTime # Null
  /\ tick(World, "idle", 2, CHOOSE r \in Randoms(settings) : TRUE).e.idleStart
       = now - 2 * MsPerSecond

(***************************************************************************)
(* A tick that finds no break scheduled (SpecLock)                         *)
(***************************************************************************)
\* C32: a tick in which a break should fire and none is scheduled when the
\* tick comes to step 5 schedules one a full frequency ahead and begins no
\* break.  No tick brings a schedule forward (the schedule after a tick is
\* null, the one before it, or a full frequency ahead), and the break a tick
\* begins is one that was scheduled before that tick and is past due: no
\* break begins in the tick that created its schedule.
C32_ScheduleBeforeFiring ==
  [][\A state \in IdleStates, idleTime \in IdleTimes, r \in Randoms(settings) :
       TickWith(state, idleTime, r) =>
         LET frequencyMs ==
               IntervalSeconds(settings.breakFrequencySeconds) * MsPerSecond
             found == BeforeStepFour(state)
         IN /\ (/\ checkShouldHaveBreak(World, state).should
                /\ found.e.breakTime = Null)
               => /\ eng'.breakTime = now + frequencyMs
                  /\ ~eng'.havingBreak
                  /\ pending' = <<>>
                  /\ ~WindowsCreated(fx')
            /\ eng'.breakTime \in {Null, eng.breakTime, now + frequencyMs}
            /\ DoBreakStarted =>
                 /\ eng.breakTime # Null
                 /\ now > eng.breakTime
                 /\ found.e.breakTime = eng.breakTime]_vars

\* A tick can run with the user active, a break possible and none scheduled
C32_Witness ==
  /\ TickCanRun
  /\ eng.lastTick # Null
  /\ eng.breakTime = Null
  /\ checkShouldHaveBreak(World, "active").should
  /\ tick(World, "active", 2, CHOOSE r \in Randoms(settings) : TRUE).e.breakTime
       = now + IntervalSeconds(settings.breakFrequencySeconds) * MsPerSecond

(***************************************************************************)
(* scheduleNextBreak and an open idle period (Spec)                        *)
(***************************************************************************)
\* The settings scheduleNextBreak can find in place: those of the state, or
\* any profile the settings handler has just stored (it re-initialises the
\* engine, which schedules)
SettingsInPlace == {settings} \cup Profiles

\* C33: scheduleNextBreak with an idle period open shows the idle
\* notification exactly when idle reset and its notification are enabled
\* (with the time since idleStart), clears idleStart, resets postponedCount
\* to 0 and sets lastCompletedBreakTime to now, and schedules; with no idle
\* period open it leaves postponedCount, idleStart, lockStart and
\* lastCompletedBreakTime alone and shows nothing.
C33_ScheduleClosesIdlePeriod ==
  \A isPostpone \in BOOLEAN, s \in SettingsInPlace :
    LET after == scheduleNextBreak([World EXCEPT !.s = s], isPostpone)
        seconds == IntervalSeconds(IF isPostpone THEN s.postponeLengthSeconds
                                   ELSE s.breakFrequencySeconds)
    IN /\ after.e.breakTime = now + seconds * MsPerSecond
       /\ after.e.lockStart = eng.lockStart
       /\ IF eng.idleStart # Null
          THEN /\ after.e.idleStart = Null
               /\ after.e.postponedCount = 0
               /\ after.e.lastCompletedBreakTime = now
               /\ after.fx =
                    IF s.idleResetEnabled /\ s.idleResetNotification
                    THEN <<Fx("Break automatically detected",
                              RoundToSeconds(now - eng.idleStart), 0)>>
                    ELSE <<>>
          ELSE /\ after.e.idleStart = Null
               /\ after.e.postponedCount = eng.postponedCount
               /\ after.e.lastCompletedBreakTime = eng.lastCompletedBreakTime
               /\ after.fx = <<>>

\* An idle period is open after a postpone, some time after the last
\* completed break
C33_Witness ==
  /\ pending = <<>>
  /\ eng.idleStart # Null
  /\ eng.postponedCount > 0
  /\ eng.lastCompletedBreakTime < now

(***************************************************************************)
(* The message history and its cursor (SpecHistory)                        *)
(***************************************************************************)
\* The cursor is -1 exactly when the history is empty and otherwise indexes
\* one of its entries
CursorInHistory ==
  /\ (eng.breakMessageHistoryIndex = 0 - 1) <=> (eng.breakMessageHistory = <<>>)
  /\ eng.breakMessageHistory # <<>> =>
       eng.breakMessageHistoryIndex \in 0..(Len(eng.breakMessageHistory) - 1)

\* The history is not empty and the current message is the entry at the
\* cursor
CurrentMessageAtCursor ==
  /\ eng.breakMessageHistory # <<>>
  /\ eng.currentBreakMessage =
       eng.breakMessageHistory[eng.breakMessageHistoryIndex + 1].message

\* No doBreak is suspended
BeginBreakCompleted == \A i \in DOMAIN pending : pending[i].kind # "doBreak"

\* C34 as stated: the cursor is -1 exactly when the history is empty and
\* otherwise indexes an entry; while a break is active and its doBreak has
\* completed, the history is not empty and the current message is the entry
\* at the cursor.
C34_AsStated ==
  /\ CursorInHistory
  /\ (eng.havingBreak /\ BeginBreakCompleted) => CurrentMessageAtCursor

\* C34: the same, while a break is active and neither its doBreak nor a
\* next-message request is suspended.
C34_CursorIndexesCurrentMessage ==
  /\ CursorInHistory
  /\ (eng.havingBreak /\ pending = <<>>) => CurrentMessageAtCursor

\* A break is shown with two messages in its history and the cursor rewound
\* to the first
C34_Witness ==
  /\ eng.havingBreak
  /\ pending = <<>>
  /\ Len(eng.breakMessageHistory) = 2
  /\ eng.breakMessageHistoryIndex = 0

RECURSIVE WindowsCount(_)
WindowsCount(effects) ==
  IF effects = <<>> THEN 0
  ELSE (IF Head(effects).k = "createBreakWindows" THEN 1 ELSE 0)
       + WindowsCount(Tail(effects))

C37_PausedHasNoEndTimestamp ==
  eng.breakCountdownPaused =>
    /\ eng.currentBreakEndTimestamp = Null
    /\ eng.currentBreakRemainingMs # Null
    /\ getCurrentBreakRemainingMs(eng) = eng.currentBreakRemainingMs

\* A countdown paused after part of it has run
C37_Witness ==
  /\ eng.havingBreak
  /\ eng.breakCountdownPaused
  /\ eng.currentBreakRemainingMs < eng.currentBreakTotalDurationMs

(***************************************************************************)
(* The countdown of a displayed history entry (SpecEntries)                *)
(***************************************************************************)
\* The broadcasts of a channel among the effects
Broadcasts(effects, channel) ==
  {effects[i] : i \in {j \in 1..Len(effects) : effects[j].k = channel}}

\* A request has displayed the entry: the countdown restarts with the
\* duration the entry stores, paused if it was paused, running otherwise
EntryDisplayed(after, entry) ==
  /\ after.e.currentBreakMessage = entry.message
  /\ after.e.currentBreakTotalDurationMs = entry.durationMs
  /\ after.e.currentBreakRemainingMs = entry.durationMs
  /\ after.e.breakCountdownPaused = eng.breakCountdownPaused
  /\ IF eng.breakCountdownPaused
     THEN /\ after.e.currentBreakEndTimestamp = Null
          /\ Broadcasts(after.fx, "BreakPause") =
               {Fx("BreakPause", entry.durationMs, entry.durationMs)}
          /\ Broadcasts(after.fx, "BreakStart") = {}
     ELSE /\ after.e.currentBreakEndTimestamp = now + entry.durationMs
          /\ Broadcasts(after.fx, "BreakStart") =
               {Fx("BreakStart", now + entry.durationMs, entry.durationMs)}
          /\ Broadcasts(after.fx, "BreakPause") = {}

\* C38: during a break the entry at the cursor stores the total duration of
\* the countdown, adjustments included; goToPreviousBreakMessage and
\* skipCurrentBreakMessage, when they display an entry, set the total and
\* the remaining time to the duration that entry stores and keep the paused
\* flag: paused, the end timestamp is null and BreakPause is broadcast;
\* running, the end timestamp is now + duration and BreakStart is broadcast.
C38_EntryRestoresDuration ==
  (eng.havingBreak /\ pending = <<>>) =>
    LET history == eng.breakMessageHistory
        cursor == eng.breakMessageHistoryIndex
    IN /\ history[cursor + 1].durationMs = eng.currentBreakTotalDurationMs
       /\ cursor > 0 =>
            EntryDisplayed(goToPreviousBreakMessage(World), history[cursor])
       /\ \A r \in Randoms(settings), saveOk \in BOOLEAN :
            LET done == AdvanceCompleted(r, saveOk)
                shown == done.e.breakMessageHistory[done.e.breakMessageHistoryIndex + 1]
            IN /\ EntryDisplayed(done, shown)
               /\ ~CursorAtEnd(eng) => shown = history[cursor + 2]

\* A paused break at the second of two messages, the first of which has had
\* its duration adjusted
C38_Witness ==
  /\ eng.havingBreak
  /\ pending = <<>>
  /\ eng.breakCountdownPaused
  /\ Len(eng.breakMessageHistory) = 2
  /\ eng.breakMessageHistoryIndex = 1
  /\ eng.breakMessageHistory[1].durationMs # eng.breakMessageHistory[2].durationMs

(***************************************************************************)
(* Breaks keep coming (SpecLive)                                           *)
(***************************************************************************)
\* A break has just been begun: doBreak has been entered
BreakBegunNow == pending # <<>> /\ pending[1].kind = "doBreak"

\* The time since the last tick is no longer than the break frequency
GapWithinFrequency ==
  eng.lastTick # Null =>
    now - eng.lastTick <= getBreakSeconds(settings) * MsPerSecond

\* C39 as stated: with breaks enabled, the clock within working hours, the
\* user active, ticks no further apart than the idle-reset length and every
\* break that is shown eventually ended or snoozed, a break is begun again
\* and again.
C39_AsStated == []<>BreakBegunNow

\* C39: the same, when the ticks are also no further apart than the break
\* frequency.
C39_BreaksKeepComing == ([]GapWithinFrequency) => []<>BreakBegunNow

\* A break is begun after the one before it was snoozed
C39_Witness ==
  /\ BreakBegunNow
  /\ eng.postponedCount > 0

(***************************************************************************)
(* Resume with no time left (SpecAdjust)                                   *)
(***************************************************************************)
\* A paused break whose stored remaining time is 0
PausedAtZero ==
  /\ eng.havingBreak
  /\ eng.breakCountdownPaused
  /\ eng.currentBreakRemainingMs = 0

\* C40: resume on a paused break whose remaining time is 0 is rejected:
\* resumeActiveBreak returns no result, the resume handler broadcasts
\* nothing, and the break stays active and paused with remaining time 0 and
\* no end timestamp (the engine state is unchanged).
C40_ResumeAtZeroRejected ==
  PausedAtZero =>
    LET resumed == resumeActiveBreak(World)
        handled == BreakResumeHandler(World)
    IN /\ resumed.ret = None
       /\ handled.fx = <<>>
       /\ handled.e = eng
       /\ handled.e.havingBreak
       /\ handled.e.breakCountdownPaused
       /\ handled.e.currentBreakRemainingMs = 0
       /\ handled.e.currentBreakEndTimestamp = Null

\* A break paused after its end timestamp had passed (the clock is beyond the
\* start of the break plus its whole duration), in the second after a tick,
\* nothing broadcast by the last request
C40_Witness ==
  /\ PausedAtZero
  /\ eng.currentBreakEndTimestamp = Null
  /\ eng.currentBreakStartTime # Null
  /\ now > eng.currentBreakStartTime + eng.currentBreakTotalDurationMs
  /\ now = eng.lastTick
  /\ pending = <<>>
  /\ fx = <<>>

====
